---------------------------- MODULE Spec2Model ----------------------------
(***************************************************************************)
(* Ro-Shipsy: the reduction engine behind AnalysisPage (remote summary     *)
(* payloads, fallback to MOCK_RESPONSE_DATA, batches of scenario names)    *)
(* and OutputDashboard (parseCSV and the scenarioMetrics aggregation).     *)
(*                                                                         *)
(* JavaScript values are tagged records.  A number is an exact rational    *)
(* n/d with d > 0; NaN is the number with d = 0.  The model computes with  *)
(* exact rationals where the program computes with IEEE doubles: the two   *)
(* agree on every rounding decision unless the exact value lies within an  *)
(* ulp of a rounding tie, which the values drawn here never do.            *)
(***************************************************************************)
EXTENDS Integers, Sequences, FiniteSets, TLC

(***************************************************************************)
(* Bounds of the model.                                                    *)
(***************************************************************************)
MaxCount == 3

(***************************************************************************)
(* JavaScript values.                                                      *)
(***************************************************************************)
Undef == [t |-> "undefined"]
Null == [t |-> "null"]
Num(n, d) == [t |-> "number", n |-> n, d |-> d]
Int2Num(n) == Num(n, 1)
NaN == Num(0, 0)
Str(s) == [t |-> "string", s |-> s]
Bool(b) == [t |-> "boolean", b |-> b]

IsNum(v) == v.t = "number"
IsNaNValue(v) == IsNum(v) /\ v.d = 0
IsFinite(v) == IsNum(v) /\ v.d > 0

\* ToBoolean: undefined, null, NaN, 0, "" and false are falsy.
Truthy(v) ==
  CASE v.t = "undefined" -> FALSE
    [] v.t = "null" -> FALSE
    [] v.t = "number" -> v.d > 0 /\ v.n # 0
    [] v.t = "string" -> v.s # ""
    [] v.t = "boolean" -> v.b
    [] OTHER -> TRUE

\* a || b
Or(a, b) == IF Truthy(a) THEN a ELSE b

\* ToNumber; the strings of the model are not numeric literals.
ToNumber(v) ==
  CASE v.t = "number" -> v
    [] v.t = "null" -> Int2Num(0)
    [] v.t = "boolean" -> Int2Num(IF v.b THEN 1 ELSE 0)
    [] v.t = "string" -> IF v.s = "" THEN Int2Num(0) ELSE NaN
    [] OTHER -> NaN

Abs(i) == IF i < 0 THEN -i ELSE i

\* a / b on numbers; every divisor the program forms is non-zero or NaN.
NumDiv(a, b) ==
  LET x == ToNumber(a)
      y == ToNumber(b)
  IN IF x.d = 0 \/ y.d = 0 \/ y.n = 0 THEN NaN
     ELSE IF y.n > 0 THEN Num(x.n * y.d, x.d * y.n)
     ELSE Num(-(x.n * y.d), x.d * (-y.n))

\* a * b
NumMul(a, b) ==
  LET x == ToNumber(a)
      y == ToNumber(b)
  IN IF x.d = 0 \/ y.d = 0 THEN NaN ELSE Num(x.n * y.n, x.d * y.d)

\* a - b
NumSub(a, b) ==
  LET x == ToNumber(a)
      y == ToNumber(b)
  IN IF x.d = 0 \/ y.d = 0 THEN NaN ELSE Num(x.n * y.d - y.n * x.d, x.d * y.d)

\* a === b on numbers (NaN equals nothing).
NumEq(a, b) == a.d > 0 /\ b.d > 0 /\ a.n * b.d = b.n * a.d

\* a <= b on numbers (false when either is NaN).
NumLe(a, b) == a.d > 0 /\ b.d > 0 /\ a.n * b.d <= b.n * a.d

Pow10(k) == IF k = 0 THEN 1 ELSE IF k = 1 THEN 10 ELSE 100

\* Number.prototype.toFixed(digits): the nearest multiple of 10^-digits, the
\* larger magnitude on a tie, with the sign of the number kept; "NaN" for NaN.
\* The string is kept as (sign, units of 10^-digits, digits).
ToFixedTruncating(x, digits) ==
  IF x.d = 0 THEN [nan |-> TRUE, neg |-> FALSE, units |-> 0, digits |-> digits]
  ELSE [nan |-> FALSE, neg |-> x.n < 0,
        units |-> (Abs(x.n) * Pow10(digits)) \div x.d, digits |-> digits]

ToFixed(x, digits) ==
  IF x.d = 0 THEN [nan |-> TRUE, neg |-> FALSE, units |-> 0, digits |-> digits]
  ELSE [nan |-> FALSE, neg |-> x.n < 0,
        units |-> (2 * Abs(x.n) * Pow10(digits) + x.d) \div (2 * x.d),
        digits |-> digits]

\* Math.floor and Math.round (half towards +Infinity) of a finite number.
MathFloor(x) == x.n \div x.d
MathRound(x) == (2 * x.n + x.d) \div (2 * x.d)

(***************************************************************************)
(* AnalysisPage.tsx: the payload of the remote call and its normalisation. *)
(***************************************************************************)
Arr(items) == [t |-> "array", items |-> items]
IsArray(v) == v.t = "array"

\* One entry of drop_breakup.
DropBreakupItem(code, label, count) ==
  [t |-> "object", reason_code |-> code, reason_label |-> label,
   dropped_count |-> count]

\* The summary sub-structure of a payload.
Summary(trips, avgDist, avgHours, planned, served, dropped, avgStops) ==
  [t |-> "object", total_trips |-> trips, avg_trip_distance_km |-> avgDist,
   avg_trip_hours |-> avgHours, total_consignments_planned |-> planned,
   total_consignments_served |-> served,
   total_consignments_dropped |-> dropped, avg_stops_per_trip |-> avgStops]

\* A payload (WebhookResponseItem).
Item(success, requestId, hub, summary, breakup) ==
  [t |-> "object", success |-> success, request_id |-> requestId,
   hub_code |-> hub, summary |-> summary, drop_breakup |-> breakup]

MOCK_LITERAL ==
  Item(Bool(TRUE), Str("IDBtest3"), Str("PALAK"),
       Summary(Int2Num(1), Num(6, 100), Num(211, 100), Int2Num(13),
               Int2Num(10), Int2Num(3), Int2Num(10)),
       Arr(<<DropBreakupItem(Str("WEIGHT_CONSTRAINT_BREACH"),
                             Str("Insufficient weight"), Int2Num(3))>>))

\* A variant that drops the fraction of the minutes.
formatHoursTruncating(decimalHours) ==
  LET v == ToNumber(decimalHours)
  IN IF v.d = 0 THEN [hrs |-> 0, mins |-> 0]
     ELSE LET hrs == MathFloor(v)
              mins == MathFloor(NumMul(NumSub(v, Int2Num(hrs)), Int2Num(60)))
          IN [hrs |-> hrs, mins |-> mins]

\* formatHoursToHHMM: the string `${hrs}h ${mins}m` kept as (hrs, mins).
formatHoursToHHMM(decimalHours) ==
  LET v == ToNumber(decimalHours)
  IN IF v.d = 0 THEN [hrs |-> 0, mins |-> 0]
     ELSE LET hrs == MathFloor(v)
              mins == MathRound(NumMul(NumSub(v, Int2Num(hrs)), Int2Num(60)))
          IN [hrs |-> hrs, mins |-> mins]

\* d => ({ reason: d.reason_label || d.reason_code, count: d.dropped_count })
ProjectReason(d) ==
  [reason |-> Or(d.reason_label, d.reason_code), count |-> d.dropped_count]

\* The comparator (a, b) => b.count - a.count says b goes before a.
GoesBefore(b, a) ==
  LET diff == NumSub(b.count, a.count) IN diff.d > 0 /\ diff.n > 0

\* A variant of a sort that is not stable: e is placed before the elements
\* it compares equal to.
RECURSIVE InsertBeforeEqual(_, _)
InsertBeforeEqual(s, e) ==
  IF s = <<>> THEN <<e>>
  ELSE IF ~GoesBefore(Head(s), e) THEN <<e>> \o s
  ELSE <<Head(s)>> \o InsertBeforeEqual(Tail(s), e)

\* Array.prototype.sort is stable: e is placed before the first element it
\* must precede and after every other one.
RECURSIVE InsertSorted(_, _)
InsertSorted(s, e) ==
  IF s = <<>> THEN <<e>>
  ELSE IF GoesBefore(e, Head(s)) THEN <<e>> \o s
  ELSE <<Head(s)>> \o InsertSorted(Tail(s), e)

RECURSIVE SortReasons(_)
SortReasons(s) ==
  IF s = <<>> THEN <<>>
  ELSE InsertSorted(SortReasons(SubSeq(s, 1, Len(s) - 1)), s[Len(s)])

\* What a call of fetchScenarioData returns: a DetailedMetrics, null, or a
\* thrown exception (a rejected promise).
NoMetrics == [id |-> Undef]
Returned(m) == [kind |-> "metrics", m |-> m]
ReturnedNull == [kind |-> "null", m |-> NoMetrics]
Thrown == [kind |-> "throw", m |-> NoMetrics]

\* (v || 0).toFixed(...) is a TypeError unless v || 0 is a number.
HasToFixed(v) == IsNum(Or(v, Int2Num(0)))

\* (item.drop_breakup || []).map(d => d.reason_label ...) is a TypeError when
\* the value is truthy but no array, or when an element is null or undefined.
CanMapBreakup(b) ==
  LET a == Or(b, Arr(<<>>))
  IN IsArray(a) /\ \A i \in 1..Len(a.items) : a.items[i].t = "object"

\* total_consignments_planned || 1
TotalPlanned(summary) == Or(summary.total_consignments_planned, Int2Num(1))

\* A variant that divides by the planned count itself.
DropSplitUnguarded(summary) ==
  NumMul(NumDiv(summary.total_consignments_dropped,
                summary.total_consignments_planned), Int2Num(100))

\* (summary.total_consignments_dropped / totalPlanned) * 100
DropSplit(summary) ==
  NumMul(NumDiv(summary.total_consignments_dropped, TotalPlanned(summary)),
         Int2Num(100))

\* summary.avg_trip_distance_km || 0 and summary.avg_stops_per_trip || 0
AvgOrZero(v) == Or(v, Int2Num(0))

\* The object literal fetchScenarioData returns.
DetailedMetrics(item, scenarioName, isMock) ==
  LET summary == item.summary
      dropSplit == DropSplit(summary)
  IN [id |-> Or(item.request_id, Str(scenarioName)),
      hub |-> Or(item.hub_code, Str("N/A")),
      totalTrips |-> Or(summary.total_trips, Int2Num(0)),
      avgDistance |-> AvgOrZero(summary.avg_trip_distance_km),
      avgDistanceStr |-> ToFixed(AvgOrZero(summary.avg_trip_distance_km), 2),
      totalStops |-> Or(summary.total_consignments_served, Int2Num(0)),
      avgConsignments |-> AvgOrZero(summary.avg_stops_per_trip),
      avgConsignmentsStr |-> ToFixed(AvgOrZero(summary.avg_stops_per_trip), 1),
      avgTripTimeStr |->
        formatHoursToHHMM(Or(summary.avg_trip_hours, Int2Num(0))),
      totalDrops |-> Or(summary.total_consignments_dropped, Int2Num(0)),
      dropSplit |-> dropSplit,
      dropSplitStr |-> ToFixed(dropSplit, 1),
      dropReasons |->
        LET a == Or(item.drop_breakup, Arr(<<>>))
        IN SortReasons([i \in 1..Len(a.items) |-> ProjectReason(a.items[i])]),
      isMock |-> isMock]

\* A variant without `if (!summary) return null`: reading a property of the
\* missing summary throws.
NormalizeItemUnchecked(item, scenarioName, isMock) ==
  IF ~Truthy(item) THEN ReturnedNull
  ELSE IF item.success = Bool(FALSE) /\ ~isMock THEN ReturnedNull
  ELSE IF ~Truthy(item.summary) THEN Thrown
  ELSE IF \/ ~HasToFixed(item.summary.avg_trip_distance_km)
          \/ ~HasToFixed(item.summary.avg_stops_per_trip)
          \/ ~CanMapBreakup(item.drop_breakup)
       THEN Thrown
  ELSE Returned(DetailedMetrics(item, scenarioName, isMock))

\* fetchScenarioData from `if (!item) return null` on: item is what the
\* remote call or the fallback left in the local variable.
NormalizeItem(item, scenarioName, isMock) ==
  IF ~Truthy(item) THEN ReturnedNull
  ELSE IF item.success = Bool(FALSE) /\ ~isMock THEN ReturnedNull
  ELSE IF ~Truthy(item.summary) THEN ReturnedNull
  ELSE IF \/ ~HasToFixed(item.summary.avg_trip_distance_km)
          \/ ~HasToFixed(item.summary.avg_stops_per_trip)
          \/ ~CanMapBreakup(item.drop_breakup)
       THEN Thrown
  ELSE Returned(DetailedMetrics(item, scenarioName, isMock))

\* a === b
StrictEquals(a, b) ==
  /\ a.t = b.t
  /\ IF a.t = "number" THEN NumEq(a, b) ELSE a = b

\* A variant that takes the first value.
MathMinOfFirst(values) == ToNumber(values[1])

\* Math.min(...values) of a non-empty array: NaN when a value converts to NaN.
RECURSIVE MathMin(_)
MathMin(values) ==
  IF Len(values) = 1 THEN ToNumber(values[1])
  ELSE LET x == ToNumber(Head(values))
           rest == MathMin(Tail(values))
       IN IF x.d = 0 \/ rest.d = 0 THEN NaN
          ELSE IF NumLe(x, rest) THEN x ELSE rest

\* Math.max(...values) of a non-empty array.
RECURSIVE MathMax(_)
MathMax(values) ==
  IF Len(values) = 1 THEN ToNumber(values[1])
  ELSE LET x == ToNumber(Head(values))
           rest == MathMax(Tail(values))
       IN IF x.d = 0 \/ rest.d = 0 THEN NaN
          ELSE IF NumLe(rest, x) THEN x ELSE rest

\* What the useMemo callback of bestMetrics returns: null, or the extrema.
NoBestMetrics == [isNull |-> TRUE]

Extrema(metricsData) ==
  [isNull |-> FALSE,
   minDistance |->
     MathMin([i \in 1..Len(metricsData) |-> metricsData[i].avgDistance]),
   minDrops |->
     MathMin([i \in 1..Len(metricsData) |-> metricsData[i].totalDrops]),
   minTrips |->
     MathMin([i \in 1..Len(metricsData) |-> metricsData[i].totalTrips]),
   maxConsignments |->
     MathMax([i \in 1..Len(metricsData) |-> metricsData[i].avgConsignments])]

\* A variant whose guard is metricsData.length < 1.
BestMetricsFromOne(metricsData, mode) ==
  IF Len(metricsData) < 1 \/ mode # "COMPARE" THEN NoBestMetrics
  ELSE Extrema(metricsData)

BestMetrics(metricsData, mode) ==
  IF Len(metricsData) < 2 \/ mode # "COMPARE" THEN NoBestMetrics
  ELSE Extrema(metricsData)

(***************************************************************************)
(* OutputDashboard (src/unnamed/part_000): strings.  A JavaScript string   *)
(* is a TLA+ string; the names used as object keys are not names of        *)
(* properties of Object.prototype.                                         *)
(***************************************************************************)
CharAt(s, i) == SubSeq(s, i, i)

IsSpace(c) == c \in {" ", "\t", "\r", "\n"}

\* String.prototype.trim
RECURSIVE TrimStart(_)
TrimStart(s) ==
  IF Len(s) > 0 /\ IsSpace(CharAt(s, 1)) THEN TrimStart(Tail(s)) ELSE s

RECURSIVE TrimEnd(_)
TrimEnd(s) ==
  IF Len(s) > 0 /\ IsSpace(CharAt(s, Len(s)))
    THEN TrimEnd(SubSeq(s, 1, Len(s) - 1))
    ELSE s

Trim(s) == TrimEnd(TrimStart(s))

\* text.split('\n') on what is left of the text: the pieces between the line
\* feeds, at least one piece.
RECURSIVE SplitRest(_, _, _)
SplitRest(rest, done, current) ==
  IF rest = "" THEN Append(done, current)
  ELSE IF Head(rest) = "\n" THEN SplitRest(Tail(rest), Append(done, current), "")
  ELSE SplitRest(Tail(rest), done, current \o Head(rest))

SplitLines(text) == SplitRest(text, <<>>, "")

\* val.replace(/^"|"$/g, ''): a quote at the start and a quote at the end go.
StripQuotes(val) ==
  LET a == IF Len(val) > 0 /\ CharAt(val, 1) = "\"" THEN Tail(val) ELSE val
  IN IF Len(a) > 0 /\ CharAt(a, Len(a)) = "\""
       THEN SubSeq(a, 1, Len(a) - 1)
       ELSE a

\* A variant in which every comma ends the current value.
RECURSIVE ParseRestEveryComma(_, _, _, _)
ParseRestEveryComma(rest, result, current, inQuotes) ==
  IF rest = "" THEN Append(result, Trim(current))
  ELSE LET char == Head(rest)
       IN IF char = "\""
            THEN ParseRestEveryComma(Tail(rest), result, current, ~inQuotes)
          ELSE IF char = ","
            THEN ParseRestEveryComma(Tail(rest), Append(result, Trim(current)),
                                     "", inQuotes)
          ELSE ParseRestEveryComma(Tail(rest), result, current \o char,
                                   inQuotes)

\* The for loop of parseLine on what is left of the line, and the push after it.
RECURSIVE ParseRest(_, _, _, _)
ParseRest(rest, result, current, inQuotes) ==
  IF rest = "" THEN Append(result, Trim(current))
  ELSE LET char == Head(rest)
       IN IF char = "\""
            THEN ParseRest(Tail(rest), result, current, ~inQuotes)
          ELSE IF char = "," /\ ~inQuotes
            THEN ParseRest(Tail(rest), Append(result, Trim(current)), "",
                           inQuotes)
          ELSE ParseRest(Tail(rest), result, current \o char, inQuotes)

\* parseLine
ParseLine(line) ==
  LET result == ParseRest(line, <<>>, "", FALSE)
  IN [i \in 1..Len(result) |-> Trim(StripQuotes(result[i]))]

\* values[i] || ''
ValueOrEmpty(values, i) == IF i <= Len(values) THEN values[i] ELSE ""

\* A variant in which a name already assigned keeps its value.
RowFirstWins(headers, values) ==
  LET F[k \in 0..Len(headers)] ==
        IF k = 0 THEN <<>>
        ELSE F[k - 1] @@ (headers[k] :> ValueOrEmpty(values, k))
  IN F[Len(headers)]

\* headers.forEach((h, i) => { row[h] = values[i] || '' }) on an empty row:
\* an assignment to a name already assigned replaces its value.
RowOf(headers, values) ==
  LET F[k \in 0..Len(headers)] ==
        IF k = 0 THEN <<>>
        ELSE (headers[k] :> ValueOrEmpty(values, k)) @@ F[k - 1]
  IN F[Len(headers)]

\* The lines of text that are not empty after trimming.
SurvivingLines(text) == SelectSeq(SplitLines(text), LAMBDA l : Trim(l) # "")

\* parseCSV
ParseCSV(text) ==
  LET lines == SurvivingLines(text)
  IN IF Len(lines) = 0 THEN [headers |-> <<>>, rows |-> <<>>]
     ELSE LET headers == ParseLine(lines[1])
          IN [headers |-> headers,
              rows |-> [r \in 1..(Len(lines) - 1) |->
                          RowOf(headers, ParseLine(lines[r + 1]))]]

(***************************************************************************)
(* OutputDashboard: the scenarioMetrics aggregation.  A row is a function  *)
(* from the names of its fields to strings.                                *)
(***************************************************************************)
\* row[key] where it is read under || or !, which take undefined and '' alike.
Get(row, key) == IF key \in DOMAIN row THEN row[key] ELSE ""

\* a || b on strings
OrStr(a, b) == IF a # "" THEN a ELSE b

UpperCaseLetters == "ABCDEFGHIJKLMNOPQRSTUVWXYZ"
LowerCaseLetters == "abcdefghijklmnopqrstuvwxyz"

LowerChar(c) ==
  IF \E i \in 1..Len(UpperCaseLetters) : CharAt(UpperCaseLetters, i) = c
    THEN CharAt(LowerCaseLetters,
                CHOOSE i \in 1..Len(UpperCaseLetters) :
                  CharAt(UpperCaseLetters, i) = c)
    ELSE c

\* String.prototype.toLowerCase
ToLowerCase(s) ==
  LET F[k \in 0..Len(s)] ==
        IF k = 0 THEN "" ELSE F[k - 1] \o LowerChar(CharAt(s, k))
  IN F[Len(s)]

\* String.prototype.includes
Includes(s, sub) ==
  \E i \in 1..(Len(s) - Len(sub) + 1) : SubSeq(s, i, i + Len(sub) - 1) = sub

Digits == "0123456789"
IsDigit(c) == \E i \in 1..Len(Digits) : CharAt(Digits, i) = c
DigitValue(c) == (CHOOSE i \in 1..Len(Digits) : CharAt(Digits, i) = c) - 1

\* s.replace(/[^0-9.-]+/g, "")
KeepNumeric(s) ==
  LET F[k \in 0..Len(s)] ==
        IF k = 0 THEN ""
        ELSE LET c == CharAt(s, k)
             IN IF IsDigit(c) \/ c = "." \/ c = "-" THEN F[k - 1] \o c
                ELSE F[k - 1]
  IN F[Len(s)]

\* How many digits s starts with, and their value.
RECURSIVE LeadingDigits(_)
LeadingDigits(s) ==
  IF Len(s) > 0 /\ IsDigit(CharAt(s, 1)) THEN 1 + LeadingDigits(Tail(s)) ELSE 0

RECURSIVE DigitsValue(_)
DigitsValue(s) ==
  IF Len(s) = 0 THEN 0
  ELSE 10 * DigitsValue(SubSeq(s, 1, Len(s) - 1)) + DigitValue(CharAt(s, Len(s)))

RECURSIVE TenTo(_)
TenTo(k) == IF k = 0 THEN 1 ELSE 10 * TenTo(k - 1)

\* parseFloat on a string of digits, '.' and '-': the longest prefix that is
\* a decimal literal, NaN when there is none.
ParseFloat(s) ==
  LET neg == Len(s) > 0 /\ CharAt(s, 1) = "-"
      body == IF neg THEN Tail(s) ELSE s
      intLen == LeadingDigits(body)
      rest == SubSeq(body, intLen + 1, Len(body))
      fracLen == IF Len(rest) > 0 /\ CharAt(rest, 1) = "."
                   THEN LeadingDigits(Tail(rest)) ELSE 0
      units == DigitsValue(SubSeq(body, 1, intLen)) * TenTo(fracLen)
                 + DigitsValue(SubSeq(rest, 2, fracLen + 1))
  IN IF intLen = 0 /\ fracLen = 0 THEN NaN
     ELSE Num(IF neg THEN -units ELSE units, TenTo(fracLen))

\* a + b
NumAdd(a, b) ==
  IF a.d = 0 \/ b.d = 0 THEN NaN ELSE Num(a.n * b.d + b.n * a.d, a.d * b.d)

\* row['request_id'] || row['Request_Id'] || 'Unknown'
ReqId(row) ==
  OrStr(Get(row, "request_id"), OrStr(Get(row, "Request_Id"), "Unknown"))

\* A variant that falls back to 'Unknown' as the scenario key does.
VCodeOrUnknown(r) ==
  OrStr(Get(r, "vehicle_code"), OrStr(Get(r, "Vehicle_Code"), "Unknown"))

\* r['vehicle_code'] || r['Vehicle_Code']
VCode(r) == OrStr(Get(r, "vehicle_code"), Get(r, "Vehicle_Code"))

\* The keys of `scenarios` in the order the forEach created them.
CreatedKeys(data) ==
  LET F[k \in 0..Len(data)] ==
        IF k = 0 THEN <<>>
        ELSE LET before == F[k - 1]
             IN IF \E j \in 1..Len(before) : before[j] = ReqId(data[k])
                  THEN before
                  ELSE Append(before, ReqId(data[k]))
  IN F[Len(data)]

\* A key that is a canonical array index ("0", "7", "10", not "07").
IsIndexKey(key) ==
  /\ Len(key) > 0
  /\ LeadingDigits(key) = Len(key)
  /\ (CharAt(key, 1) = "0" => Len(key) = 1)

RECURSIVE InsertIndexKey(_, _)
InsertIndexKey(sorted, key) ==
  IF sorted = <<>> THEN <<key>>
  ELSE IF DigitsValue(key) < DigitsValue(Head(sorted)) THEN <<key>> \o sorted
  ELSE <<Head(sorted)>> \o InsertIndexKey(Tail(sorted), key)

RECURSIVE SortIndexKeys(_)
SortIndexKeys(keys) ==
  IF keys = <<>> THEN <<>>
  ELSE InsertIndexKey(SortIndexKeys(Tail(keys)), Head(keys))

\* Object.keys(scenarios): the index keys in ascending order, then the other
\* keys in the order of their creation.
ObjectKeys(created) ==
  SortIndexKeys(SelectSeq(created, IsIndexKey))
    \o SelectSeq(created, LAMBDA key : ~IsIndexKey(key))

\* scenarios[id]
RowsOf(data, id) == SelectSeq(data, LAMBDA row : ReqId(row) = id)

\* (r['travel_distance_km'] || r['Travel_Distance_Km'] || '0') stripped and
\* parsed.
DistanceOf(r) ==
  ParseFloat(KeepNumeric(
    OrStr(Get(r, "travel_distance_km"),
          OrStr(Get(r, "Travel_Distance_Km"), "0"))))

\* type.includes('delivery') || type.includes('pickup') || type.includes('visit')
IsStop(r) ==
  LET type == ToLowerCase(OrStr(Get(r, "type"), OrStr(Get(r, "Type"), "")))
  IN Includes(type, "delivery") \/ Includes(type, "pickup")
       \/ Includes(type, "visit")

\* The object `vehicles` after rows.forEach.
Vehicles(rows) ==
  LET F[k \in 0..Len(rows)] ==
        IF k = 0 THEN <<>>
        ELSE LET r == rows[k]
                 vCode == VCode(r)
                 vehicles == F[k - 1]
                 before == IF vCode \in DOMAIN vehicles THEN vehicles[vCode]
                           ELSE [distance |-> Int2Num(0), stops |-> 0]
                 dist == DistanceOf(r)
             IN IF vCode = "" THEN vehicles
                ELSE (vCode :>
                        [distance |-> IF dist.d = 0 THEN before.distance
                                      ELSE NumAdd(before.distance, dist),
                         stops |-> IF IsStop(r) THEN before.stops + 1
                                   ELSE before.stops])
                       @@ vehicles
  IN F[Len(rows)]

RECURSIVE TotalStops(_, _)
TotalStops(vehicles, codes) ==
  IF codes = {} THEN 0
  ELSE LET v == CHOOSE c \in codes : TRUE
       IN vehicles[v].stops + TotalStops(vehicles, codes \ {v})

RECURSIVE TotalDist(_, _)
TotalDist(vehicles, codes) ==
  IF codes = {} THEN Int2Num(0)
  ELSE LET v == CHOOSE c \in codes : TRUE
       IN NumAdd(vehicles[v].distance, TotalDist(vehicles, codes \ {v}))

\* The string "0".
ZeroString == [nan |-> FALSE, neg |-> FALSE, units |-> 0, digits |-> 0]

\* A variant without the guard on totalVehicles.
AverageUnguarded(total, totalVehicles, digits) ==
  ToFixed(NumDiv(total, Int2Num(totalVehicles)), digits)

\* totalVehicles > 0 ? (total / totalVehicles).toFixed(digits) : "0"
Average(total, totalVehicles, digits) ==
  IF totalVehicles > 0
    THEN ToFixed(NumDiv(total, Int2Num(totalVehicles)), digits)
    ELSE ZeroString

\* The ScenarioMetrics of one key of `scenarios`.
ScenarioMetricsOf(id, rows, currentScenarioName) ==
  LET vehicles == Vehicles(rows)
      totalVehicles == Cardinality(DOMAIN vehicles)
  IN [id |-> id,
      hub |-> OrStr(Get(rows[1], "hub_code"),
                    OrStr(Get(rows[1], "Hub_Code"), "N/A")),
      totalVehicles |-> totalVehicles,
      totalTrips |-> totalVehicles,
      avgStops |->
        Average(Int2Num(TotalStops(vehicles, DOMAIN vehicles)),
                totalVehicles, 1),
      avgDistance |->
        Average(TotalDist(vehicles, DOMAIN vehicles), totalVehicles, 2),
      isCurrent |->
        IF currentScenarioName # ""
          THEN ToLowerCase(id) = ToLowerCase(currentScenarioName)
          ELSE FALSE]

\* A variant that leaves the results in the order of the map.
SortNothing(results) == results

\* results.sort((a, b) => a.isCurrent ? -1 : b.isCurrent ? 1 : 0): an element
\* goes before the sorted ones exactly when the comparator is negative on it.
RECURSIVE SortCurrentFirst(_)
SortCurrentFirst(results) ==
  IF results = <<>> THEN <<>>
  ELSE LET sorted == SortCurrentFirst(SubSeq(results, 1, Len(results) - 1))
           e == results[Len(results)]
       IN IF e.isCurrent THEN <<e>> \o sorted ELSE Append(sorted, e)

\* What the useMemo callback returns: null, or the sorted results.
NoScenarioMetrics == [isNull |-> TRUE, list |-> <<>>]

ScenarioMetrics(data, currentScenarioName) ==
  IF Len(data) = 0 THEN NoScenarioMetrics
  ELSE LET keys == ObjectKeys(CreatedKeys(data))
       IN [isNull |-> FALSE,
           list |-> SortCurrentFirst(
                      [i \in 1..Len(keys) |->
                         ScenarioMetricsOf(keys[i], RowsOf(data, keys[i]),
                                           currentScenarioName)])]

(***************************************************************************)
(* State.                                                                  *)
(***************************************************************************)
VARIABLES
  mode,                \* AnalysisPage state: 'SINGLE' or 'COMPARE'
  isLoading,           \* AnalysisPage state
  metricsData,         \* AnalysisPage state: the displayed DetailedMetrics[]
  error,               \* AnalysisPage state: a message or null
  hasSearched,         \* AnalysisPage state
  initialScenario,     \* AnalysisPage prop ("" when not given)
  MOCK_RESPONSE_DATA,  \* the module-level fallback object
  batches,             \* the executeSearch calls, oldest first
  searches,            \* how many executeSearch calls were started
  callPc,       \* position of one fetchScenarioData call after its remote call
  callItem,     \* its local variable item
  callName,     \* its argument scenarioName
  callResult,   \* what it returned
  csvPc,        \* position of one parseCSV call
  csvText,      \* its argument text: the sheet exported as CSV
  csvLines,     \* how many lines the sheet has
  csvResult,    \* what it returned: { headers, rows }
  aggPc,               \* position of one run of the scenarioMetrics callback
  data,                \* OutputDashboard state: the parsed rows
  currentScenarioName, \* OutputDashboard prop ("" when not given)
  scenarioMetrics,     \* what the callback returned
  previousRun,         \* history: the input and the result of the run on the
                       \* rows that fetchSheetData last replaced
  cmpPc,               \* position of one run of the bestMetrics callback
  bestMetrics          \* what the callback returned

pageVars ==
  <<mode, isLoading, metricsData, error, hasSearched, initialScenario,
    MOCK_RESPONSE_DATA, batches, searches>>

normVars == <<callPc, callItem, callName, callResult>>

csvVars == <<csvPc, csvText, csvLines, csvResult>>

aggVars == <<aggPc, data, currentScenarioName, scenarioMetrics, previousRun>>

compareVars == <<cmpPc, bestMetrics>>

vars == <<pageVars, normVars, csvVars, aggVars, compareVars>>

\* What the AnalysisPage component never touches.
otherVars == <<normVars, csvVars, aggVars, compareVars>>

(***************************************************************************)
(* SpecNorm: fetchScenarioData after a remote call that answered, over the *)
(* payloads the remote service can send.                                   *)
(***************************************************************************)
\* A count of the payload is a non-negative integer or is absent; nothing ties
\* one field of a payload to another.
CountVals == {Int2Num(i) : i \in 0..MaxCount}
PlannedVals == CountVals \cup {Int2Num(13), Undef}
DroppedVals == CountVals \cup {Undef}
TripsVals == {Undef, Int2Num(0), Int2Num(2)}
AvgDistVals == {Undef, Int2Num(0), Num(16, 5), Str("n/a")}
AvgStopsVals == {Undef, Int2Num(10), Str("n/a")}
AvgHoursVals == {Undef, Num(211, 100), Str("n/a")}
BreakupVals ==
  {Undef, MOCK_LITERAL.drop_breakup, Str("none"),
   Arr(<<DropBreakupItem(Str("CAP"), Undef, Int2Num(1)),
         DropBreakupItem(Str("WIN"), Str("Time window"), Int2Num(2)),
         DropBreakupItem(Str("SKILL"), Str("Skill"), Int2Num(1))>>)}

Summaries ==
  {Summary(trips, avgDist, avgHours, planned, Int2Num(10), dropped, avgStops) :
     trips \in TripsVals, avgDist \in AvgDistVals, avgHours \in AvgHoursVals,
     planned \in PlannedVals, dropped \in DroppedVals,
     avgStops \in AvgStopsVals}

RemoteItems ==
  {Undef, Null}
  \cup {Item(success, requestId, Str("PALAK"), summary, breakup) :
          success \in {Bool(TRUE), Bool(FALSE)},
          requestId \in {Undef, Str("IDBtest3")},
          summary \in Summaries \cup {Undef}, breakup \in BreakupVals}

NoError == "null"

\* The page mounted without initialScenario and left alone.
PageIdle ==
  /\ mode = "SINGLE"
  /\ isLoading = FALSE
  /\ metricsData = <<>>
  /\ error = NoError
  /\ hasSearched = FALSE
  /\ initialScenario = ""
  /\ MOCK_RESPONSE_DATA = MOCK_LITERAL
  /\ batches = <<>>
  /\ searches = 0

NormIdle ==
  /\ callPc = "idle"
  /\ callItem = Undef
  /\ callName = ""
  /\ callResult = ReturnedNull

CsvIdle ==
  /\ csvPc = "idle"
  /\ csvText = ""
  /\ csvLines = 0
  /\ csvResult = [headers |-> <<>>, rows |-> <<>>]

\* No run of the callback on replaced rows yet.
NoRun == [ran |-> FALSE]

AggIdle ==
  /\ aggPc = "idle"
  /\ data = <<>>
  /\ currentScenarioName = ""
  /\ scenarioMetrics = NoScenarioMetrics
  /\ previousRun = NoRun

CompareIdle ==
  /\ cmpPc = "idle"
  /\ bestMetrics = NoBestMetrics

NormInit ==
  /\ callPc = "item"
  /\ callItem \in RemoteItems
  /\ callName = "X"
  /\ callResult = ReturnedNull

\* Lines 161-195 of fetchScenarioData on a remote item (isMock is false).
Normalize ==
  /\ callPc = "item"
  /\ callResult' = NormalizeItem(callItem, callName, FALSE)
  /\ callPc' = "returned"
  /\ UNCHANGED <<callItem, callName, pageVars, compareVars, csvVars, aggVars>>

NormStart == NormInit /\ PageIdle /\ CsvIdle /\ AggIdle /\ CompareIdle

NormNext == Normalize

SpecNorm == NormStart /\ [][NormNext]_vars

(***************************************************************************)
(* Spec: the AnalysisPage component.  Each action is one event handler or  *)
(* one continuation of an awaited promise, run to its next await together  *)
(* with the promise reactions it triggers.  The form (searchInput and      *)
(* searchTags, edited by onChange, handleAddTag and removeTag) is the      *)
(* argument its handlers pass to executeSearch: one trimmed name in SINGLE *)
(* mode, any list of distinct names in COMPARE mode.                       *)
(***************************************************************************)
MaxSearches == 2

Names == {"A", "B"}
AllNames == Names \cup {"C"}

CouldNotRetrieve == "Could not retrieve data. Please check Scenario Name."
TypeErrorMessage == "TypeError"

\* Payloads the remote service may answer with for a scenario name.
GoodItem(name) ==
  Item(Bool(TRUE), Str(name), Str("HUB1"),
       Summary(Int2Num(2), Num(16, 5), Num(3, 2), Int2Num(4), Int2Num(3),
               Int2Num(1), Int2Num(4)),
       Arr(<<DropBreakupItem(Str("CAP"), Undef, Int2Num(1))>>))
FailedItem(name) == [GoodItem(name) EXCEPT !.success = Bool(FALSE)]
NoSummaryItem(name) == [GoodItem(name) EXCEPT !.summary = Undef]
BadTypesItem(name) == [GoodItem(name) EXCEPT !.drop_breakup = Str("none")]

RemoteBodies(name) ==
  {GoodItem(name), Arr(<<GoodItem(name)>>), Arr(<<>>), FailedItem(name),
   NoSummaryItem(name), BadTypesItem(name)}

\* item = Array.isArray(jsonResponse) ? jsonResponse[0] : jsonResponse
ItemOfBody(jsonResponse) ==
  IF IsArray(jsonResponse)
    THEN IF Len(jsonResponse.items) > 0 THEN jsonResponse.items[1] ELSE Undef
    ELSE jsonResponse

\* A variant that leaves the request_id of the fallback object as it is.
FallbackItemKeepsId(mock, scenarioName) == mock

\* item = { ...MOCK_RESPONSE_DATA, request_id: scenarioName }
FallbackItem(mock, scenarioName) ==
  [mock EXCEPT !.request_id = Str(scenarioName)]

\* A variant that assigns request_id on MOCK_RESPONSE_DATA itself.
MockAssignedInPlace(mock, scenarioName) ==
  [mock EXCEPT !.request_id = Str(scenarioName)]

\* MOCK_RESPONSE_DATA after the fallback: the spread copies, so it is as before.
MockAfterFallback(mock, scenarioName) == mock

\* One call of fetchScenarioData: its argument, where it is suspended, its
\* locals item and isMock, why its try block failed, and what it returned.
NewCall(name) ==
  [scenarioName |-> name, pc |-> "fetch", item |-> Undef, isMock |-> FALSE,
   failure |-> "none", result |-> ReturnedNull]

\* One call of executeSearch: its argument, the mode its closure captured,
\* its fetchScenarioData calls, how it left its try statement ("pending"
\* before that), and validResults.
NewBatch(scenarios, m) ==
  [scenarios |-> scenarios, mode |-> m,
   calls |-> [i \in 1..Len(scenarios) |-> NewCall(scenarios[i])],
   outcome |-> "pending", validResults |-> <<>>]

AllDone(calls) == \A j \in 1..Len(calls) : calls[j].pc = "done"

\* An executeSearch call that has ended and whose promises have all settled.
Finished(batch) == batch.outcome # "pending" /\ AllDone(batch.calls)

\* The executeSearch calls kept once call b has taken a step: those still
\* running, and b itself.  A finished call has no further effect; it is kept
\* for one step so that its end can be inspected.
Live(all, b) ==
  LET F[k \in 0..Len(all)] ==
        IF k = 0 THEN <<>>
        ELSE IF k = b \/ ~Finished(all[k]) THEN Append(F[k - 1], all[k])
        ELSE F[k - 1]
  IN F[Len(all)]

IsMetrics(r) == r.kind = "metrics"

\* A variant that collects the results last call first.
ValidResultsReversed(calls) ==
  LET kept == SelectSeq(calls, LAMBDA c : IsMetrics(c.result))
  IN [i \in 1..Len(kept) |-> kept[Len(kept) + 1 - i].result.m]

\* results.filter(Boolean)
ValidResults(calls) ==
  LET kept == SelectSeq(calls, LAMBDA c : IsMetrics(c.result))
  IN [i \in 1..Len(kept) |-> kept[i].result.m]

\* executeSearch up to `await Promise.all(promises)`; m is the mode the
\* callback closed over.
ExecuteSearch(scenarios, m) ==
  /\ scenarios # <<>>
  /\ searches < MaxSearches
  /\ isLoading' = TRUE
  /\ error' = NoError
  /\ metricsData' = <<>>
  /\ hasSearched' = TRUE
  /\ batches' = Append(Live(batches, 0), NewBatch(scenarios, m))
  /\ searches' = searches + 1
  /\ UNCHANGED <<initialScenario, MOCK_RESPONSE_DATA>>
  /\ UNCHANGED otherVars

\* handleFetchData in SINGLE mode on the name typed: from the Enter key
\* (handleKeyDown, also while loading) or the button.
FetchSingle(name) ==
  /\ mode = "SINGLE"
  /\ ExecuteSearch(<<name>>, mode)
  /\ UNCHANGED mode

\* handleFetchData in COMPARE mode, from the button, which is disabled while
\* loading: scenariosToFetch is the tags and the name typed, if new.
FetchCompare(scenariosToFetch) ==
  /\ mode = "COMPARE"
  /\ ~isLoading
  /\ ExecuteSearch(scenariosToFetch, mode)
  /\ UNCHANGED mode

\* The mode switcher's onClick, followed by the auto-fetch effect, which runs
\* again because hasSearched has become false.
SwitchMode(m) ==
  /\ mode' = m
  /\ IF initialScenario # ""
       THEN ExecuteSearch(<<initialScenario>>, m)
       ELSE /\ metricsData' = <<>>
            /\ hasSearched' = FALSE
            /\ batches' = Live(batches, 0)
            /\ UNCHANGED <<isLoading, error, initialScenario,
                           MOCK_RESPONSE_DATA, searches>>
            /\ UNCHANGED otherVars

\* A fetchScenarioData call of batch b moves on without returning.
CallContinues(b, i, pc, failure) ==
  /\ batches' = Live([batches EXCEPT ![b].calls[i].pc = pc,
                                     ![b].calls[i].failure = failure], b)
  /\ UNCHANGED <<mode, isLoading, metricsData, error, hasSearched,
                 initialScenario, MOCK_RESPONSE_DATA, searches>>
  /\ UNCHANGED otherVars

\* Promise.all(promises) rejects when the first of its promises rejects.
RejectsNow(batch, calls) ==
  /\ batch.outcome = "pending"
  /\ \E j \in 1..Len(calls) : calls[j].pc = "done" /\ calls[j].result.kind = "throw"

\* Promise.all(promises) fulfils when all of its promises have fulfilled.
FulfilsNow(batch, calls) ==
  /\ batch.outcome = "pending"
  /\ AllDone(calls)
  /\ \A j \in 1..Len(calls) : calls[j].result.kind # "throw"

\* if (validResults.length === 0) throw new Error(...)
OutcomeOfResults(validResults) ==
  IF validResults = <<>> THEN "empty" ELSE "resolved"

\* A fetchScenarioData call of batch b returns or throws; when that settles
\* Promise.all, executeSearch runs on from its await to the end of finally.
CallReturns(b, i, call) ==
  LET batch == batches[b]
      calls == [batch.calls EXCEPT ![i] = call]
      rejects == RejectsNow(batch, calls)
      fulfils == FulfilsNow(batch, calls)
      validResults == ValidResults(calls)
      outcome == IF rejects THEN "rejected"
                 ELSE IF fulfils THEN OutcomeOfResults(validResults)
                 ELSE batch.outcome
  IN /\ batches' = Live([batches EXCEPT ![b].calls = calls,
                                        ![b].outcome = outcome,
                                        ![b].validResults =
                                          IF fulfils THEN validResults ELSE @],
                          b)
     /\ error' = IF rejects THEN TypeErrorMessage
                 ELSE IF fulfils /\ outcome = "empty" THEN CouldNotRetrieve
                 ELSE error
     /\ metricsData' = IF fulfils /\ outcome = "resolved" THEN validResults
                       ELSE metricsData
     /\ isLoading' = IF rejects \/ fulfils THEN FALSE ELSE isLoading
     /\ UNCHANGED <<mode, hasSearched, initialScenario, searches>>
     /\ UNCHANGED otherVars

Pending(b, i, pc) ==
  /\ b \in 1..Len(batches)
  /\ i \in 1..Len(batches[b].calls)
  /\ batches[b].calls[i].pc = pc

\* fetch() rejects: a network or CORS error.
FetchRejects(b, i) ==
  /\ Pending(b, i, "fetch")
  /\ CallContinues(b, i, "delay", "network")

\* fetch() answers; a status that is not ok makes the call throw.
FetchResponds(b, i, ok) ==
  /\ Pending(b, i, "fetch")
  /\ IF ok THEN CallContinues(b, i, "json", "none")
     ELSE CallContinues(b, i, "delay", "status")

\* response.json() rejects: the body is no JSON.
JsonRejects(b, i) ==
  /\ Pending(b, i, "json")
  /\ CallContinues(b, i, "delay", "parse")

\* response.json() answers and the call runs to its return.
JsonResolves(b, i, jsonResponse) ==
  /\ Pending(b, i, "json")
  /\ LET c == batches[b].calls[i]
         item == ItemOfBody(jsonResponse)
     IN CallReturns(b, i,
          [c EXCEPT !.pc = "done", !.item = item,
                    !.result = NormalizeItem(item, c.scenarioName, FALSE)])
  /\ UNCHANGED MOCK_RESPONSE_DATA

\* The 600 ms timer of the catch block fires and the call runs to its return
\* on the fallback payload.
DelayElapses(b, i) ==
  /\ Pending(b, i, "delay")
  /\ LET c == batches[b].calls[i]
         item == FallbackItem(MOCK_RESPONSE_DATA, c.scenarioName)
     IN CallReturns(b, i,
          [c EXCEPT !.pc = "done", !.item = item, !.isMock = TRUE,
                    !.result = NormalizeItem(item, c.scenarioName, TRUE)])
  /\ MOCK_RESPONSE_DATA' =
       MockAfterFallback(MOCK_RESPONSE_DATA, batches[b].calls[i].scenarioName)

\* The sequences of distinct names over a set, shortest first.
IsDistinct(q) == \A i, j \in 1..Len(q) : i < j => q[i] # q[j]

RECURSIVE DistinctSeqs(_, _)
DistinctSeqs(S, k) ==
  IF k = 0 THEN {<<>>}
  ELSE LET shorter == DistinctSeqs(S, k - 1)
           longer == {Append(q, x) : q \in shorter, x \in S}
       IN shorter \cup {q \in longer : IsDistinct(q)}

ScenarioLists(S) == DistinctSeqs(S, Cardinality(S)) \ {<<>>}

\* The component mounted; with initialScenario the auto-fetch effect has run.
PageInit ==
  /\ initialScenario \in {"", "A"}
  /\ mode = "SINGLE"
  /\ isLoading = (initialScenario # "")
  /\ metricsData = <<>>
  /\ error = NoError
  /\ hasSearched = (initialScenario # "")
  /\ MOCK_RESPONSE_DATA = MOCK_LITERAL
  /\ batches = IF initialScenario = "" THEN <<>>
               ELSE <<NewBatch(<<initialScenario>>, "SINGLE")>>
  /\ searches = IF initialScenario = "" THEN 0 ELSE 1

Calls == {<<b, i>> : b \in 1..MaxSearches, i \in 1..Cardinality(AllNames)}

Init == PageInit /\ NormIdle /\ CsvIdle /\ AggIdle /\ CompareIdle

Next ==
  \/ \E name \in Names : FetchSingle(name)
  \/ \E scenarios \in ScenarioLists(Names) : FetchCompare(scenarios)
  \/ \E m \in {"SINGLE", "COMPARE"} : SwitchMode(m)
  \/ \E c \in Calls : FetchRejects(c[1], c[2])
  \/ \E c \in Calls, ok \in BOOLEAN : FetchResponds(c[1], c[2], ok)
  \/ \E c \in Calls : JsonRejects(c[1], c[2])
  \/ \E c \in Calls :
       /\ Pending(c[1], c[2], "json")
       /\ \E body \in RemoteBodies(batches[c[1]].calls[c[2]].scenarioName) :
            JsonResolves(c[1], c[2], body)
  \/ \E c \in Calls : DelayElapses(c[1], c[2])

Spec == Init /\ [][Next]_vars

(***************************************************************************)
(* SpecBatch: one executeSearch call on any list of up to three names,     *)
(* from its start to the end of its finally block.                         *)
(***************************************************************************)
BatchInit ==
  /\ initialScenario = ""
  /\ mode \in {"SINGLE", "COMPARE"}
  /\ isLoading = TRUE
  /\ metricsData = <<>>
  /\ error = NoError
  /\ hasSearched = TRUE
  /\ MOCK_RESPONSE_DATA = MOCK_LITERAL
  /\ \E scenarios \in ScenarioLists(AllNames) :
       /\ mode = "SINGLE" => Len(scenarios) = 1
       /\ batches = <<NewBatch(scenarios, mode)>>
  /\ searches = 1
  /\ NormIdle /\ CsvIdle /\ AggIdle /\ CompareIdle

BatchNext ==
  \/ \E c \in Calls : FetchRejects(c[1], c[2])
  \/ \E c \in Calls, ok \in BOOLEAN : FetchResponds(c[1], c[2], ok)
  \/ \E c \in Calls : JsonRejects(c[1], c[2])
  \/ \E c \in Calls :
       /\ Pending(c[1], c[2], "json")
       /\ \E body \in RemoteBodies(batches[c[1]].calls[c[2]].scenarioName) :
            JsonResolves(c[1], c[2], body)
  \/ \E c \in Calls : DelayElapses(c[1], c[2])

SpecBatch == BatchInit /\ [][BatchNext]_vars

(***************************************************************************)
(* SpecCSV: parseCSV on the export of a sheet of up to MaxLines lines of   *)
(* one or two cells each.                                                  *)
(***************************************************************************)
MaxLines == 3

Cells == {"", "a", " b", "\"a,b\""}

Lines == Cells \cup {c1 \o "," \o c2 : c1, c2 \in Cells}

\* An empty sheet, before fetchSheetData reads its export.
CsvInit ==
  /\ csvPc = "text"
  /\ csvText = ""
  /\ csvLines = 0
  /\ csvResult = [headers |-> <<>>, rows |-> <<>>]
  /\ PageIdle /\ NormIdle /\ AggIdle /\ CompareIdle

\* The sheet gets one more line.
SheetLine(line) ==
  /\ csvPc = "text"
  /\ csvLines < MaxLines
  /\ csvText' = IF csvLines = 0 THEN line ELSE csvText \o "\n" \o line
  /\ csvLines' = csvLines + 1
  /\ UNCHANGED <<csvPc, csvResult, pageVars, compareVars, normVars, aggVars>>

\* parseCSV(csvText)
ParseCsvText ==
  /\ csvPc = "text"
  /\ csvResult' = ParseCSV(csvText)
  /\ csvPc' = "parsed"
  /\ UNCHANGED <<csvText, csvLines, pageVars, compareVars, normVars, aggVars>>

CsvNext ==
  \/ \E line \in Lines : SheetLine(line)
  \/ ParseCsvText

SpecCSV == CsvInit /\ [][CsvNext]_vars

(***************************************************************************)
(* SpecLine: parseCSV on a sheet of one line of up to MaxLineLen           *)
(* characters: its headers are what parseLine returns for the line.        *)
(***************************************************************************)
MaxLineLen == 5

Alphabet == {"a", "b", ",", "\"", " "}

RECURSIVE LinesUpTo(_)
LinesUpTo(k) ==
  IF k = 0 THEN {""}
  ELSE LET shorter == LinesUpTo(k - 1)
       IN shorter \cup {l \o c : l \in {x \in shorter : Len(x) = k - 1},
                                 c \in Alphabet}

LineInit ==
  /\ csvPc = "text"
  /\ csvText \in LinesUpTo(MaxLineLen)
  /\ csvLines = 1
  /\ csvResult = [headers |-> <<>>, rows |-> <<>>]
  /\ PageIdle /\ NormIdle /\ AggIdle /\ CompareIdle

LineNext == ParseCsvText

SpecLine == LineInit /\ [][LineNext]_vars

(***************************************************************************)
(* SpecAgg: the scenarioMetrics callback on up to MaxRows rows, as         *)
(* parseCSV leaves them for sheets with the columns the callback reads.    *)
(***************************************************************************)
MaxRows == 2

ScenarioParts ==
  {<<>>,
   ("request_id" :> "S1") @@ ("hub_code" :> "H1"),
   ("Request_Id" :> "7") @@ ("Hub_Code" :> "H2")}

VehicleParts ==
  {"vehicle_code" :> "", "vehicle_code" :> "V1", "Vehicle_Code" :> "V2"}

TypeParts == {"type" :> "Home Delivery", "type" :> "depot"}

DistanceParts ==
  {"travel_distance_km" :> "1.5 km", "travel_distance_km" :> "n/a"}

SheetRows ==
  {s @@ v @@ t @@ d : s \in ScenarioParts, v \in VehicleParts,
                      t \in TypeParts, d \in DistanceParts}

RECURSIVE RowSeqs(_)
RowSeqs(k) ==
  IF k = 0 THEN {<<>>}
  ELSE RowSeqs(k - 1)
         \cup {Append(q, r) : q \in {x \in RowSeqs(k - 1) : Len(x) = k - 1},
                              r \in SheetRows}

AggInit ==
  /\ aggPc = "data"
  /\ data \in RowSeqs(MaxRows)
  /\ currentScenarioName \in {"", "s1"}
  /\ scenarioMetrics = NoScenarioMetrics
  /\ previousRun = NoRun
  /\ PageIdle /\ NormIdle /\ CsvIdle /\ CompareIdle

\* A variant whose `scenarios` object is created once, outside the callback,
\* and still holds the rows of the run before.
ComputeOnKeptGroups ==
  /\ aggPc = "data"
  /\ scenarioMetrics' =
       IF Len(data) = 0 THEN NoScenarioMetrics
       ELSE ScenarioMetrics(
              (IF previousRun.ran THEN previousRun.data ELSE <<>>) \o data,
              currentScenarioName)
  /\ aggPc' = "computed"
  /\ UNCHANGED <<data, currentScenarioName, previousRun, pageVars, compareVars, normVars,
                 csvVars>>

\* The useMemo callback of scenarioMetrics.
ComputeScenarioMetrics ==
  /\ aggPc = "data"
  /\ scenarioMetrics' = ScenarioMetrics(data, currentScenarioName)
  /\ aggPc' = "computed"
  /\ UNCHANGED <<data, currentScenarioName, previousRun, pageVars, compareVars, normVars,
                 csvVars>>

AggNext == ComputeScenarioMetrics

SpecAgg == AggInit /\ [][AggNext]_vars

(***************************************************************************)
(* SpecFleet: the scenarioMetrics callback on up to MaxFleetRows rows of   *)
(* one scenario with up to three vehicles.                                 *)
(***************************************************************************)
MaxFleetRows == 3

FleetRows ==
  {("request_id" :> "S1") @@ ("hub_code" :> "H1") @@ ("vehicle_code" :> v)
     @@ ("type" :> t) @@ ("travel_distance_km" :> d) :
     v \in {"V1", "V2", "V3"}, t \in {"Home Delivery", "depot"},
     d \in {"10", "20 km"}}

RECURSIVE FleetSeqs(_)
FleetSeqs(k) ==
  IF k = 0 THEN {<<>>}
  ELSE FleetSeqs(k - 1)
         \cup {Append(q, r) : q \in {x \in FleetSeqs(k - 1) : Len(x) = k - 1},
                              r \in FleetRows}

FleetInit ==
  /\ aggPc = "data"
  /\ data \in FleetSeqs(MaxFleetRows)
  /\ currentScenarioName = ""
  /\ scenarioMetrics = NoScenarioMetrics
  /\ previousRun = NoRun
  /\ PageIdle /\ NormIdle /\ CsvIdle /\ CompareIdle

FleetNext == ComputeScenarioMetrics

SpecFleet == FleetInit /\ [][FleetNext]_vars

(***************************************************************************)
(* SpecOrder: the scenarioMetrics callback on up to MaxOrderRows rows of   *)
(* scenarios whose ids differ, differ only in case, or are array indices.  *)
(***************************************************************************)
MaxOrderRows == 3

OrderRows ==
  {("request_id" :> id) @@ ("vehicle_code" :> "V1") :
     id \in {"S1", "s1", "B", "7"}}

RECURSIVE OrderSeqs(_)
OrderSeqs(k) ==
  IF k = 0 THEN {<<>>}
  ELSE OrderSeqs(k - 1)
         \cup {Append(q, r) : q \in {x \in OrderSeqs(k - 1) : Len(x) = k - 1},
                              r \in OrderRows}

OrderInit ==
  /\ aggPc = "data"
  /\ data \in OrderSeqs(MaxOrderRows)
  /\ currentScenarioName \in {"", "s1", "zz"}
  /\ scenarioMetrics = NoScenarioMetrics
  /\ previousRun = NoRun
  /\ PageIdle /\ NormIdle /\ CsvIdle /\ CompareIdle

OrderNext == ComputeScenarioMetrics

SpecOrder == OrderInit /\ [][OrderNext]_vars

(***************************************************************************)
(* SpecRefresh: the sheet is fetched again and again; every fetch empties  *)
(* the rows, then puts the parsed rows of up to MaxRefreshRows records,    *)
(* and the scenarioMetrics callback runs after each change of the rows.    *)
(* The loading flag, the error and the time of the last update, which the  *)
(* callback does not read, are left out.                                   *)
(***************************************************************************)
MaxRefreshRows == 2

RefreshRows ==
  {("request_id" :> "S1") @@ ("vehicle_code" :> "V1")
     @@ ("type" :> "Home Delivery") @@ ("travel_distance_km" :> "1.5 km"),
   ("request_id" :> "S1") @@ ("vehicle_code" :> "V2")
     @@ ("type" :> "depot") @@ ("travel_distance_km" :> "10"),
   ("request_id" :> "7") @@ ("vehicle_code" :> "V1")
     @@ ("type" :> "Pickup") @@ ("travel_distance_km" :> "n/a")}

RECURSIVE RefreshSheets(_)
RefreshSheets(k) ==
  IF k = 0 THEN {<<>>}
  ELSE RefreshSheets(k - 1)
         \cup {Append(q, r) :
                 q \in {x \in RefreshSheets(k - 1) : Len(x) = k - 1},
                 r \in RefreshRows}

RefreshInit ==
  /\ aggPc = "data"
  /\ data = <<>>
  /\ currentScenarioName \in {"", "s1"}
  /\ scenarioMetrics = NoScenarioMetrics
  /\ previousRun = NoRun
  /\ PageIdle /\ NormIdle /\ CsvIdle /\ CompareIdle

\* fetchSheetData up to its first await: setData([]).
ClearData ==
  /\ aggPc = "computed"
  /\ previousRun' =
       IF data # <<>>
         THEN [ran |-> TRUE, data |-> data,
               currentScenarioName |-> currentScenarioName,
               value |-> scenarioMetrics]
         ELSE previousRun
  /\ data' = <<>>
  /\ aggPc' = "data"
  /\ UNCHANGED <<currentScenarioName, scenarioMetrics, pageVars, compareVars, normVars,
                 csvVars>>

\* fetchSheetData after the response was parsed: setData(rows).
DeliverRows(rows) ==
  /\ aggPc = "computed"
  /\ data = <<>>
  /\ data' = rows
  /\ aggPc' = "data"
  /\ UNCHANGED <<currentScenarioName, scenarioMetrics, previousRun, pageVars, compareVars,
                 normVars, csvVars>>

RefreshNext ==
  \/ ComputeScenarioMetrics
  \/ ClearData
  \/ \E rows \in RefreshSheets(MaxRefreshRows) : DeliverRows(rows)

SpecRefresh == RefreshInit /\ [][RefreshNext]_vars

(***************************************************************************)
(* SpecCompare: the bestMetrics callback and the badges of the comparison  *)
(* table on up to MaxCompared results, in either mode (a batch started in  *)
(* COMPARE mode may end after the switch to SINGLE).                       *)
(***************************************************************************)
MaxCompared == 3

ComparedItems ==
  {Item(Bool(TRUE), Str("P"), Str("HUB1"),
        Summary(Int2Num(3), Int2Num(5), Num(3, 2), Int2Num(4), Int2Num(2),
                Int2Num(2), Num(3, 2)), Arr(<<>>)),
   Item(Bool(TRUE), Str("Q"), Str("HUB1"),
        Summary(Int2Num(2), Num(16, 5), Num(3, 2), Int2Num(4), Int2Num(4),
                Undef, Num(5, 2)), Arr(<<>>)),
   Item(Bool(TRUE), Str("R"), Str("HUB1"),
        Summary(Int2Num(3), Num(3204, 1000), Num(3, 2), Int2Num(4), Int2Num(4),
                Undef, Num(254, 100)), Arr(<<>>)),
   Item(Bool(TRUE), Str("S"), Str("HUB1"),
        Summary(Int2Num(2), Num(16, 5), Num(3, 2), Int2Num(4), Int2Num(2),
                Int2Num(2), Num(3, 2)), Arr(<<>>))}

RECURSIVE ComparedResults(_)
ComparedResults(k) ==
  IF k = 0 THEN {<<>>}
  ELSE ComparedResults(k - 1)
         \cup {Append(q, DetailedMetrics(item, item.request_id.s, FALSE)) :
                 q \in {x \in ComparedResults(k - 1) : Len(x) = k - 1},
                 item \in ComparedItems}

CompareInit ==
  /\ cmpPc = "results"
  /\ bestMetrics = NoBestMetrics
  /\ metricsData \in ComparedResults(MaxCompared)
  /\ mode \in {"SINGLE", "COMPARE"}
  /\ isLoading = FALSE
  /\ error = NoError
  /\ hasSearched = TRUE
  /\ initialScenario = ""
  /\ MOCK_RESPONSE_DATA = MOCK_LITERAL
  /\ batches = <<>>
  /\ searches = 1
  /\ NormIdle /\ CsvIdle /\ AggIdle

\* The useMemo callback of bestMetrics.
ComputeBestMetrics ==
  /\ cmpPc = "results"
  /\ bestMetrics' = BestMetrics(metricsData, mode)
  /\ cmpPc' = "computed"
  /\ UNCHANGED <<pageVars, normVars, csvVars, aggVars>>

\* The badges of the comparison table on the row of scenario s.
BestTrips(s) ==
  ~bestMetrics.isNull /\ StrictEquals(s.totalTrips, bestMetrics.minTrips)
BestDistance(s) ==
  ~bestMetrics.isNull /\ StrictEquals(s.avgDistance, bestMetrics.minDistance)
BestConsignments(s) ==
  /\ ~bestMetrics.isNull
  /\ StrictEquals(s.avgConsignments, bestMetrics.maxConsignments)
BestDrops(s) ==
  ~bestMetrics.isNull /\ StrictEquals(s.totalDrops, bestMetrics.minDrops)

CompareNext == ComputeBestMetrics

SpecCompare == CompareInit /\ [][CompareNext]_vars

(***************************************************************************)
(* SpecHours: fetchScenarioData on payloads whose avg_trip_hours is        *)
(* absent, no number, or a multiple of 1/200 from -1 to MaxHours.  A value *)
(* whose minutes lie exactly between two integers is drawn only when it is *)
(* a multiple of 1/8, which a double holds exactly.                        *)
(***************************************************************************)
MaxHours == 3

HourVals ==
  {Undef, Null, Str("n/a")}
    \cup {Num(n, 200) : n \in {k \in -200..(200 * MaxHours) :
                                  k % 10 # 5 \/ k % 25 = 0}}

HoursInit ==
  /\ callPc = "item"
  /\ callItem \in
       {Item(Bool(TRUE), Undef, Str("PALAK"),
             Summary(Int2Num(2), Num(16, 5), avgHours, Int2Num(4), Int2Num(3),
                     Int2Num(1), Int2Num(10)),
             Undef) : avgHours \in HourVals}
  /\ callName = "X"
  /\ callResult = ReturnedNull
  /\ PageIdle /\ CsvIdle /\ AggIdle /\ CompareIdle

HoursNext == Normalize

SpecHours == HoursInit /\ [][HoursNext]_vars

(***************************************************************************)
(* SpecReasons: fetchScenarioData on payloads whose drop_breakup lists up  *)
(* to MaxReasons entries, with labels present, absent or empty and with    *)
(* counts that repeat.                                                     *)
(***************************************************************************)
MaxReasons == 3

BreakupEntries ==
  {DropBreakupItem(Str("CAP"), Undef, Int2Num(1)),
   DropBreakupItem(Str("WIN"), Str("Time window"), Int2Num(2)),
   DropBreakupItem(Str("SKILL"), Str("Skill"), Int2Num(1)),
   DropBreakupItem(Str("GEO"), Str(""), Int2Num(2)),
   DropBreakupItem(Str("OTHER"), Null, Int2Num(0))}

RECURSIVE Breakups(_)
Breakups(k) ==
  IF k = 0 THEN {<<>>}
  ELSE Breakups(k - 1)
         \cup {Append(q, e) : q \in {x \in Breakups(k - 1) : Len(x) = k - 1},
                              e \in BreakupEntries}

ReasonsInit ==
  /\ callPc = "item"
  /\ callItem \in
       {Item(Bool(TRUE), Undef, Str("PALAK"),
             Summary(Int2Num(2), Num(16, 5), Num(3, 2), Int2Num(4), Int2Num(3),
                     Int2Num(1), Int2Num(10)),
             Arr(breakup)) : breakup \in Breakups(MaxReasons)}
  /\ callName = "X"
  /\ callResult = ReturnedNull
  /\ PageIdle /\ CsvIdle /\ AggIdle /\ CompareIdle

ReasonsNext == Normalize

SpecReasons == ReasonsInit /\ [][ReasonsNext]_vars

(***************************************************************************)
(* SpecSkip: the scenarioMetrics callback on up to MaxSkipRows rows that   *)
(* all have a distance and a qualifying type, and of which some name no    *)
(* vehicle under either spelling of the column.                            *)
(***************************************************************************)
MaxSkipRows == 3

SkipRows ==
  {s @@ v @@ ("type" :> "Home Delivery") @@ ("travel_distance_km" :> "1.5 km") :
     s \in {"request_id" :> "S1", "Request_Id" :> "7"},
     v \in {"vehicle_code" :> "", "Vehicle_Code" :> "",
            "vehicle_code" :> "V1",
            ("vehicle_code" :> "") @@ ("Vehicle_Code" :> "V2")}}

RECURSIVE SkipSeqs(_)
SkipSeqs(k) ==
  IF k = 0 THEN {<<>>}
  ELSE SkipSeqs(k - 1)
         \cup {Append(q, r) : q \in {x \in SkipSeqs(k - 1) : Len(x) = k - 1},
                              r \in SkipRows}

SkipInit ==
  /\ aggPc = "data"
  /\ data \in SkipSeqs(MaxSkipRows)
  /\ currentScenarioName = ""
  /\ scenarioMetrics = NoScenarioMetrics
  /\ previousRun = NoRun
  /\ PageIdle /\ NormIdle /\ CsvIdle /\ CompareIdle

SkipNext == ComputeScenarioMetrics

SpecSkip == SkipInit /\ [][SkipNext]_vars

(***************************************************************************)
(* SpecLegs: the scenarioMetrics callback on up to MaxLegRows rows of one  *)
(* scenario and two vehicles, whose distance cell holds a number with a    *)
(* unit, a number, a number with a minus sign, no number, or nothing.      *)
(***************************************************************************)
MaxLegRows == 2

LegRows ==
  {("request_id" :> "S1") @@ ("vehicle_code" :> v) @@ ("type" :> t)
     @@ ("travel_distance_km" :> d) :
     v \in {"V1", "V2"}, t \in {"Home Delivery", "depot"},
     d \in {"1.5 km", "2", "-5", "n/a", ""}}

RECURSIVE LegSeqs(_)
LegSeqs(k) ==
  IF k = 0 THEN {<<>>}
  ELSE LegSeqs(k - 1)
         \cup {Append(q, r) : q \in {x \in LegSeqs(k - 1) : Len(x) = k - 1},
                              r \in LegRows}

LegsInit ==
  /\ aggPc = "data"
  /\ data \in LegSeqs(MaxLegRows)
  /\ currentScenarioName = ""
  /\ scenarioMetrics = NoScenarioMetrics
  /\ previousRun = NoRun
  /\ PageIdle /\ NormIdle /\ CsvIdle /\ CompareIdle

LegsNext == ComputeScenarioMetrics

SpecLegs == LegsInit /\ [][LegsNext]_vars

(***************************************************************************)
(* Claims on the Summary Normalizer (SpecNorm).                            *)
(***************************************************************************)
NormReturnedMetrics == callPc = "returned" /\ callResult.kind = "metrics"

\* C6: for every DetailedMetrics produced from a payload with a summary,
\* whatever its planned and dropped counts, 0 <= dropSplit <= 100.
C6_DropSplitInRange ==
  NormReturnedMetrics =>
    /\ NumLe(Int2Num(0), callResult.m.dropSplit)
    /\ NumLe(callResult.m.dropSplit, Int2Num(100))

\* max(planned-count, 1), an absent count counting as none planned.
MaxPlannedOrOne(planned) ==
  IF IsFinite(planned) /\ planned.n > planned.d THEN planned ELSE Int2Num(1)

SameNumber(a, b) == (a.d = 0 /\ b.d = 0) \/ NumEq(a, b)

\* C7: for every payload with a summary, dropSplit is dropped / max(planned, 1)
\* * 100 and dropSplitStr is that value rounded to one decimal (at most half a
\* tenth away from it); planned = 13 and dropped = 3 give "23.1".
C7_DropSplitFormula ==
  NormReturnedMetrics =>
    LET summary == callItem.summary
        m == callResult.m
        expected ==
          NumMul(NumDiv(summary.total_consignments_dropped,
                        MaxPlannedOrOne(summary.total_consignments_planned)),
                 Int2Num(100))
    IN /\ SameNumber(m.dropSplit, expected)
       /\ m.dropSplitStr.digits = 1
       /\ m.dropSplitStr.nan = (expected.d = 0)
       /\ expected.d > 0 =>
            /\ ~m.dropSplitStr.neg
            /\ 2 * Abs(10 * expected.n - m.dropSplitStr.units * expected.d)
                 <= expected.d
       /\ (/\ summary.total_consignments_planned = Int2Num(13)
           /\ summary.total_consignments_dropped = Int2Num(3))
            => m.dropSplitStr = [nan |-> FALSE, neg |-> FALSE, units |-> 231,
                                 digits |-> 1]

\* C7 witnesses: planned = 13, dropped = 3 displayed as 23.1, and a payload
\* with none planned, where the divisor is 1.
C7_Witness ==
  /\ NormReturnedMetrics
  /\ callItem.summary.total_consignments_planned = Int2Num(13)
  /\ callItem.summary.total_consignments_dropped = Int2Num(3)
  /\ callResult.m.dropSplitStr.units = 231

\* C9: a DetailedMetrics with trip count 0 has average distance 0
\* and average stops per trip 0.
C9_ZeroTripsZeroAverages ==
  (NormReturnedMetrics /\ NumEq(callResult.m.totalTrips, Int2Num(0))) =>
    /\ NumEq(callResult.m.avgDistance, Int2Num(0))
    /\ NumEq(callResult.m.avgConsignments, Int2Num(0))

(***************************************************************************)
(* Claims on the Scenario Fetcher and the batches (SpecBatch, Spec).       *)
(***************************************************************************)
\* The DetailedMetrics of the fixed fallback payload under the id X.
FallbackMetricsOf(X) ==
  [id |-> Str(X), hub |-> Str("PALAK"), totalTrips |-> Int2Num(1),
   avgDistance |-> Num(6, 100),
   avgDistanceStr |-> [nan |-> FALSE, neg |-> FALSE, units |-> 6, digits |-> 2],
   totalStops |-> Int2Num(10), avgConsignments |-> Int2Num(10),
   avgConsignmentsStr |->
     [nan |-> FALSE, neg |-> FALSE, units |-> 100, digits |-> 1],
   avgTripTimeStr |-> [hrs |-> 2, mins |-> 7],
   totalDrops |-> Int2Num(3), dropSplit |-> Num(300, 13),
   dropSplitStr |->
     [nan |-> FALSE, neg |-> FALSE, units |-> 231, digits |-> 1],
   dropReasons |-> <<[reason |-> Str("Insufficient weight"),
                      count |-> Int2Num(3)]>>,
   isMock |-> TRUE]

IsFallbackMetrics(m, X) ==
  /\ NumEq(m.dropSplit, FallbackMetricsOf(X).dropSplit)
  /\ [m EXCEPT !.dropSplit = Num(300, 13)] = FallbackMetricsOf(X)

\* The fetchScenarioData calls that have returned or thrown.
DoneCalls ==
  {c \in {<<b, i>> : b \in 1..Len(batches), i \in 1..Cardinality(AllNames)} :
     /\ c[2] <= Len(batches[c[1]].calls)
     /\ batches[c[1]].calls[c[2]].pc = "done"}

CallAt(c) == batches[c[1]].calls[c[2]]

InResult(m) == \E k \in 1..Len(metricsData) : metricsData[k] = m

\* C1: a call for X whose remote call threw, answered with a status that is
\* not ok, or had a body that cannot be parsed, returns a DetailedMetrics with
\* id X, isMock true and the metrics and drop reasons of the fallback payload;
\* asked for alone, it is the result displayed, without an error.
C1_FallbackOnFailure ==
  \A c \in DoneCalls :
    CallAt(c).failure # "none" =>
      /\ CallAt(c).result.kind = "metrics"
      /\ CallAt(c).result.m.id = Str(CallAt(c).scenarioName)
      /\ CallAt(c).result.m.isMock
      /\ IsFallbackMetrics(CallAt(c).result.m, CallAt(c).scenarioName)
      /\ Len(batches[c[1]].calls) = 1 =>
           /\ metricsData = <<CallAt(c).result.m>>
           /\ error = NoError

\* C1 witness: in one batch, calls have fallen back after each kind of failure.
C1_Witness ==
  /\ \A f \in {"network", "status", "parse"} :
       \E c \in DoneCalls :
         /\ CallAt(c).failure = f
         /\ CallAt(c).result.kind = "metrics"
         /\ CallAt(c).result.m.isMock
  /\ Len(metricsData) = 3

\* The executeSearch call of SpecBatch has ended and all its calls have settled.
BatchEnded == Len(batches) = 1 /\ Finished(batches[1])

AnsweredFailure(call) ==
  call.pc = "done" /\ ~call.isMock /\ Truthy(call.item)
    /\ call.item.success = Bool(FALSE)

\* C2: when the remote call answers with a payload carrying success = false,
\* the scenario produces no DetailedMetrics, is absent from the batch result
\* and is not replaced by the fallback, and every other scenario of the batch
\* that produced a DetailedMetrics appears in the result.
C2_FailedPayloadAbsent ==
  BatchEnded =>
    \A c \in DoneCalls :
      AnsweredFailure(CallAt(c)) =>
        /\ CallAt(c).result.kind = "null"
        /\ \A k \in 1..Len(metricsData) :
             metricsData[k].id # Str(CallAt(c).scenarioName)
        /\ \A o \in DoneCalls :
             IsMetrics(CallAt(o).result) => InResult(CallAt(o).result.m)

\* C3: when a batch has fully resolved: if no scenario produced a
\* DetailedMetrics there is an error and an empty result; if at least one did
\* there is no error and the result is exactly the produced DetailedMetrics;
\* if every remote call failed, the result is N simulated entries, no error.
C3_BatchOutcome ==
  BatchEnded =>
    LET calls == batches[1].calls
        produced == ValidResults(calls)
    IN /\ produced = <<>> => (error # NoError /\ metricsData = <<>>)
       /\ produced # <<>> => (error = NoError /\ metricsData = produced)
       /\ (\A i \in 1..Len(calls) : calls[i].failure # "none") =>
            /\ error = NoError
            /\ Len(metricsData) = Len(calls)
            /\ \A k \in 1..Len(metricsData) : metricsData[k].isMock

\* C4: the outcome of a batch (the result or the error) is produced only when
\* all its calls have settled, and whatever one call does, the DetailedMetrics
\* its siblings produce are in the batch result.
C4_OutcomeAfterAllSettled ==
  \A b \in 1..Len(batches) :
    batches[b].outcome # "pending" =>
      /\ AllDone(batches[b].calls)
      /\ Len(batches) = 1 =>
           \A i \in 1..Len(batches[b].calls) :
             IsMetrics(batches[b].calls[i].result) =>
               InResult(batches[b].calls[i].result.m)

CsvParsed == csvPc = "parsed"

\* The positions of headers that declare the field name h.
PositionsOf(headers, h) == {i \in 1..Len(headers) : headers[i] = h}

Last(S) == CHOOSE i \in S : \A j \in S : j <= i

\* C10: when no line survives trimming, the parser returns empty fields and
\* empty records; otherwise, with R surviving data lines, it returns R records
\* in input order, each with every declared field, where field i holds the
\* i-th split value of its line, "" when the line has fewer values, and the
\* values beyond the declared fields are dropped.
C10_FieldHoldsItsValue ==
  CsvParsed =>
    LET lines == SurvivingLines(csvText)
        headers == csvResult.headers
        rows == csvResult.rows
    IN IF Len(lines) = 0 THEN headers = <<>> /\ rows = <<>>
       ELSE /\ headers = ParseLine(lines[1])
            /\ Len(rows) = Len(lines) - 1
            /\ \A r \in 1..Len(rows) :
                 LET values == ParseLine(lines[r + 1])
                 IN /\ DOMAIN rows[r] = {headers[i] : i \in 1..Len(headers)}
                    /\ \A i \in 1..Len(headers) :
                         rows[r][headers[i]] =
                           IF i <= Len(values) THEN values[i] ELSE ""

\* C10 amended: as C10, but the field named h holds the split value at the
\* last position that declares the name h (the i-th value when the declared
\* names are distinct), "" when the line has no value at that position.
C10_LastDeclarationHoldsValue ==
  CsvParsed =>
    LET lines == SurvivingLines(csvText)
        headers == csvResult.headers
        rows == csvResult.rows
    IN IF Len(lines) = 0 THEN headers = <<>> /\ rows = <<>>
       ELSE /\ headers = ParseLine(lines[1])
            /\ Len(rows) = Len(lines) - 1
            /\ \A r \in 1..Len(rows) :
                 LET values == ParseLine(lines[r + 1])
                 IN /\ DOMAIN rows[r] = {headers[i] : i \in 1..Len(headers)}
                    /\ \A h \in DOMAIN rows[r] :
                         LET i == Last(PositionsOf(headers, h))
                         IN rows[r][h] =
                              IF i <= Len(values) THEN values[i] ELSE ""

\* C10 witness: two fields of one name, and a line whose values for them
\* differ: the record holds the second.
C10_Witness ==
  /\ CsvParsed
  /\ csvResult.headers = <<"a", "a">>
  /\ Len(csvResult.rows) = 2
  /\ csvResult.rows[1] = [a |-> "b"]
  /\ csvResult.rows[2] = [a |-> ""]

(***************************************************************************)
(* Claims on the Scenario-Vehicle Aggregator (SpecAgg).                    *)
(***************************************************************************)
AggComputed == aggPc = "computed"

EntriesOf(id) ==
  {k \in 1..Len(scenarioMetrics.list) : scenarioMetrics.list[k].id = id}

\* The scenario a record belongs to, by its fields.
ScenarioOfRecord(row) ==
  IF "request_id" \in DOMAIN row /\ row["request_id"] # ""
    THEN row["request_id"]
  ELSE IF "Request_Id" \in DOMAIN row /\ row["Request_Id"] # ""
    THEN row["Request_Id"]
  ELSE "Unknown"

HasVehicleIdentifier(row) ==
  \/ "vehicle_code" \in DOMAIN row /\ row["vehicle_code"] # ""
  \/ "Vehicle_Code" \in DOMAIN row /\ row["Vehicle_Code"] # ""

\* C8: a scenario all of whose records lack a vehicle identifier is emitted,
\* once, with vehicle count 0, average distance "0" and average stops "0".
C8_ZeroVehicleScenario ==
  AggComputed =>
    \A r \in 1..Len(data) :
      LET id == ScenarioOfRecord(data[r])
      IN (\A q \in 1..Len(data) :
            ScenarioOfRecord(data[q]) = id => ~HasVehicleIdentifier(data[q]))
           => /\ Cardinality(EntriesOf(id)) = 1
              /\ \A k \in EntriesOf(id) :
                   /\ scenarioMetrics.list[k].totalVehicles = 0
                   /\ scenarioMetrics.list[k].avgDistance = ZeroString
                   /\ scenarioMetrics.list[k].avgStops = ZeroString

\* C8 witness: a scenario without vehicles, whose record counts as a stop and
\* has a distance, emitted next to a scenario with a vehicle.
C8_Witness ==
  /\ AggComputed
  /\ Len(data) = 2
  /\ ReqId(data[1]) = "S1" /\ VCode(data[1]) = "" /\ IsStop(data[1])
  /\ DistanceOf(data[1]) = Num(15, 10)
  /\ VCode(data[2]) = "V2"
  /\ Len(scenarioMetrics.list) = 2
  /\ \E k \in EntriesOf("S1") :
       /\ scenarioMetrics.list[k].totalVehicles = 0
       /\ scenarioMetrics.list[k].avgStops = ZeroString

(***************************************************************************)
(* Claims on the line splitter (SpecLine).                                 *)
(***************************************************************************)
QuotesBefore(l, i) == Cardinality({j \in 1..(i - 1) : CharAt(l, j) = "\""})

\* The commas of l with an even number of double quotes before them.
Delimiters(l) ==
  {i \in 1..Len(l) : CharAt(l, i) = "," /\ QuotesBefore(l, i) % 2 = 0}

\* The k-th piece of l between two such commas (or an end of the line).
Piece(l, k) ==
  LET before == {i \in Delimiters(l) :
                   Cardinality({j \in Delimiters(l) : j < i}) = k - 2}
      after == {i \in Delimiters(l) :
                  Cardinality({j \in Delimiters(l) : j < i}) = k - 1}
      from == IF before = {} THEN 1 ELSE (CHOOSE i \in before : TRUE) + 1
      to == IF after = {} THEN Len(l) ELSE (CHOOSE i \in after : TRUE) - 1
  IN SubSeq(l, from, to)

RECURSIVE WithoutQuotes(_)
WithoutQuotes(t) ==
  IF t = "" THEN ""
  ELSE IF Head(t) = "\"" THEN WithoutQuotes(Tail(t))
  ELSE Head(t) \o WithoutQuotes(Tail(t))

\* C11: a comma ends the current value exactly when the number of double
\* quotes before it on the line is even: the values of a line are its pieces
\* between those commas, without their double quotes and trimmed; the line
\* "a,b" in double quotes yields the single value a,b.
C11_CommaSplitsOutsideQuotes ==
  (CsvParsed /\ csvLines = 1 /\ Trim(csvText) # "") =>
    /\ Len(csvResult.headers) = Cardinality(Delimiters(csvText)) + 1
    /\ \A k \in 1..Len(csvResult.headers) :
         csvResult.headers[k] = Trim(WithoutQuotes(Piece(csvText, k)))
    /\ csvText = "\"a,b\"" => csvResult.headers = <<"a,b">>

\* C11 witness: the quoted field with an embedded comma has been split.
C11_Witness ==
  /\ CsvParsed
  /\ csvText = "\"a,b\""
  /\ csvResult.headers = <<"a,b">>

(***************************************************************************)
(* Claims on the averages of the aggregator (SpecFleet).                   *)
(***************************************************************************)
\* The records of data that belong to scenario id and name a vehicle.
VehicleRecords(id) ==
  SelectSeq(data, LAMBDA r : ScenarioOfRecord(r) = id /\ HasVehicleIdentifier(r))

\* The sum of the parsed distances of records (a distance that is no number
\* counts 0), which is the sum over the vehicles of their accumulated distance.
RECURSIVE SumOfDistances(_)
SumOfDistances(records) ==
  IF records = <<>> THEN Int2Num(0)
  ELSE LET dist == DistanceOf(Head(records))
           rest == SumOfDistances(Tail(records))
       IN IF dist.d = 0 THEN rest ELSE NumAdd(dist, rest)

\* The number of records of a qualifying type: the sum of the stop counts.
RECURSIVE NumberOfStops(_)
NumberOfStops(records) ==
  IF records = <<>> THEN 0
  ELSE (IF IsStop(Head(records)) THEN 1 ELSE 0) + NumberOfStops(Tail(records))

\* str displays the non-negative number n/d rounded to `digits` decimals: no
\* multiple of 10^-digits is nearer to n/d.
IsRounded(str, n, d, digits) ==
  /\ ~str.nan /\ ~str.neg /\ str.digits = digits
  /\ 2 * Abs(TenTo(digits) * n - str.units * d) <= d

\* C12: for every scenario with V >= 1 vehicles, avgDistance is the sum over
\* its vehicles of the accumulated distance, divided by V, rounded to 2
\* decimals, and avgStops is the sum of their stop counts divided by V, rounded
\* to 1 decimal; vehicles with distances 10 and 20 and one qualifying stop
\* each give 15.00 and 1.0.
C12_AveragesAreMeans ==
  AggComputed =>
    \A k \in 1..Len(scenarioMetrics.list) :
      LET e == scenarioMetrics.list[k]
          records == VehicleRecords(e.id)
          V == Cardinality({VCode(records[i]) : i \in 1..Len(records)})
          total == SumOfDistances(records)
      IN V >= 1 =>
           /\ e.totalVehicles = V
           /\ IsRounded(e.avgDistance, total.n, total.d * V, 2)
           /\ IsRounded(e.avgStops, NumberOfStops(records), V, 1)
           /\ (/\ Len(records) = 2 /\ V = 2
               /\ NumEq(DistanceOf(records[1]), Int2Num(10))
               /\ NumEq(DistanceOf(records[2]), Int2Num(20))
               /\ IsStop(records[1]) /\ IsStop(records[2]))
                => /\ e.avgDistance.units = 1500
                   /\ e.avgStops.units = 10

\* C12 witness: two vehicles with distances 10 and 20 and a stop each.
C12_Witness ==
  /\ AggComputed
  /\ Len(data) = 2
  /\ VCode(data[1]) = "V1" /\ VCode(data[2]) = "V2"
  /\ Get(data[1], "travel_distance_km") = "10"
  /\ Get(data[2], "travel_distance_km") = "20 km"
  /\ IsStop(data[1]) /\ IsStop(data[2])
  /\ Len(scenarioMetrics.list) = 1
  /\ scenarioMetrics.list[1].avgDistance.units = 1500
  /\ scenarioMetrics.list[1].avgStops.units = 10

(***************************************************************************)
(* Claims on records without a vehicle identifier (SpecSkip).              *)
(***************************************************************************)
\* seq without its i-th element.
RemoveAt(seq, i) == SubSeq(seq, 1, i - 1) \o SubSeq(seq, i + 1, Len(seq))

SameVehicleStats(a, b) ==
  /\ a.totalVehicles = b.totalVehicles
  /\ a.totalTrips = b.totalTrips
  /\ a.avgDistance = b.avgDistance
  /\ a.avgStops = b.avgStops

\* C13: a record without a vehicle identifier changes no VehicleStat: the
\* output for the records with it and the output for the records without it
\* give every scenario the same vehicle count, trip count, average distance
\* and average stops, whatever distance and type the record carries; a
\* scenario that exists only because of such a record has no vehicle at all.
C13_VehiclelessRecordIsSkipped ==
  AggComputed =>
    \A i \in 1..Len(data) :
      ~HasVehicleIdentifier(data[i]) =>
        LET with == scenarioMetrics.list
            without == ScenarioMetrics(RemoveAt(data, i),
                                       currentScenarioName).list
        IN /\ \A j \in 1..Len(without) :
                \E k \in 1..Len(with) :
                  /\ with[k].id = without[j].id
                  /\ SameVehicleStats(with[k], without[j])
           /\ \A k \in 1..Len(with) :
                \/ \E j \in 1..Len(without) : without[j].id = with[k].id
                \/ /\ with[k].totalVehicles = 0
                   /\ with[k].totalTrips = 0
                   /\ with[k].avgDistance = ZeroString
                   /\ with[k].avgStops = ZeroString

\* C13 witness: a scenario of one vehicle, preceded by a record of the same
\* scenario that has a distance and a qualifying type but no vehicle.
C13_Witness ==
  /\ AggComputed
  /\ Len(data) = 2
  /\ ScenarioOfRecord(data[1]) = "S1" /\ ScenarioOfRecord(data[2]) = "S1"
  /\ ~HasVehicleIdentifier(data[1]) /\ IsStop(data[1])
  /\ DistanceOf(data[1]) = Num(15, 10)
  /\ HasVehicleIdentifier(data[2]) /\ IsStop(data[2])
  /\ DistanceOf(data[2]) = Num(15, 10)
  /\ Len(scenarioMetrics.list) = 1
  /\ scenarioMetrics.list[1].totalVehicles = 1
  /\ scenarioMetrics.list[1].avgDistance.units = 150
  /\ scenarioMetrics.list[1].avgStops.units = 10

(***************************************************************************)
(* Claims on the order of the scenarios (SpecOrder).                       *)
(***************************************************************************)
\* The scenario ids in the order in which the grouping emits them.
EmittedIds == ObjectKeys(CreatedKeys(data))

OutputIds == [k \in 1..Len(scenarioMetrics.list) |-> scenarioMetrics.list[k].id]

\* id equals the current scenario name, case-insensitively.
MatchesCurrent(id) ==
  /\ currentScenarioName # ""
  /\ ToLowerCase(id) = ToLowerCase(currentScenarioName)

\* The other scenarios keep their relative order; with no match the order is
\* the emitted one.
OthersKeepOrder ==
  /\ Len(OutputIds) = Len(EmittedIds)
  /\ SelectSeq(OutputIds, LAMBDA id : ~MatchesCurrent(id))
       = SelectSeq(EmittedIds, LAMBDA id : ~MatchesCurrent(id))

FlaggedIffMatching ==
  \A k \in 1..Len(OutputIds) :
    scenarioMetrics.list[k].isCurrent <=> MatchesCurrent(OutputIds[k])

RanTwiceOnSameInput ==
  /\ AggComputed
  /\ previousRun.ran
  /\ previousRun.data = data
  /\ previousRun.currentScenarioName = currentScenarioName

BestComputed == cmpPc = "computed"

\* m is the least (greatest, when sign is -1) of the values of field over
\* the result set, one scenario at least has that value, and the scenarios
\* that have it are the flagged ones.
IsExtremum(m, field, sign, Flagged(_)) ==
  /\ m.t = "number" /\ m.d > 0
  /\ \A i \in 1..Len(metricsData) :
       LET v == metricsData[i][field]
       IN /\ sign * m.n * v.d <= sign * v.n * m.d
          /\ Flagged(metricsData[i]) <=> m.n * v.d = v.n * m.d
  /\ \E i \in 1..Len(metricsData) :
       metricsData[i][field].n * m.d = m.n * metricsData[i][field].d

ComparisonYieldsExtrema ==
  /\ ~bestMetrics.isNull
  /\ IsExtremum(bestMetrics.minDistance, "avgDistance", 1, BestDistance)
  /\ IsExtremum(bestMetrics.minDrops, "totalDrops", 1, BestDrops)
  /\ IsExtremum(bestMetrics.minTrips, "totalTrips", 1, BestTrips)
  /\ IsExtremum(bestMetrics.maxConsignments, "avgConsignments", -1,
                BestConsignments)

\* Average distances 5.0, 3.2 and 3.2 give the minimum 3.2, and the second
\* and the third scenario are flagged.
ExampleOfTie ==
  (/\ Len(metricsData) = 3
   /\ metricsData[1].avgDistance = Int2Num(5)
   /\ metricsData[2].avgDistance = Num(16, 5)
   /\ metricsData[3].avgDistance = Num(16, 5))
    => /\ NumEq(bestMetrics.minDistance, Num(32, 10))
       /\ ~BestDistance(metricsData[1])
       /\ BestDistance(metricsData[2])
       /\ BestDistance(metricsData[3])

NoBadge(s) ==
  ~BestTrips(s) /\ ~BestDistance(s) /\ ~BestConsignments(s) /\ ~BestDrops(s)

\* C17: whenever the result set holds fewer than two DetailedMetrics, the
\* callback returns no extrema and no scenario is flagged best.
C17_NoComparisonBelowTwo ==
  BestComputed /\ Len(metricsData) < 2 =>
    /\ bestMetrics = NoBestMetrics
    /\ \A i \in 1..Len(metricsData) : NoBadge(metricsData[i])

\* C17 witness: a single result in COMPARE mode.
C17_Witness ==
  /\ BestComputed
  /\ mode = "COMPARE"
  /\ Len(metricsData) = 1
  /\ bestMetrics = NoBestMetrics
  /\ NoBadge(metricsData[1])

(***************************************************************************)
(* Claims on payloads without a summary (SpecBatch).                       *)
(***************************************************************************)
\* The remote call answered with a payload that has no summary.
NoSummaryPayload(call) ==
  call.pc = "done" /\ ~call.isMock /\ Truthy(call.item)
    /\ ~Truthy(call.item.summary)

\* The DetailedMetrics that calls returned, in the order of the calls.
RECURSIVE MetricsReturnedBy(_)
MetricsReturnedBy(calls) ==
  IF calls = <<>> THEN <<>>
  ELSE IF Head(calls).result.kind = "metrics"
    THEN <<Head(calls).result.m>> \o MetricsReturnedBy(Tail(calls))
  ELSE MetricsReturnedBy(Tail(calls))

\* C18: a call whose payload has no summary returns no result and does not
\* throw; its scenario is not in the batch result, and the outcome of the
\* batch is the one its other calls determine: their DetailedMetrics, or the
\* error of an empty result when they returned none, or the error of the one
\* of them that threw.
C18_NoSummaryNoResult ==
  BatchEnded =>
    \A c \in DoneCalls :
      NoSummaryPayload(CallAt(c)) =>
        LET others == RemoveAt(batches[1].calls, c[2])
            thrown == \E j \in 1..Len(others) : others[j].result.kind = "throw"
        IN /\ CallAt(c).result = ReturnedNull
           /\ \A k \in 1..Len(metricsData) :
                metricsData[k].id # Str(CallAt(c).scenarioName)
           /\ ~thrown =>
                /\ metricsData = MetricsReturnedBy(others)
                /\ error = IF MetricsReturnedBy(others) = <<>>
                             THEN CouldNotRetrieve ELSE NoError
           /\ thrown => metricsData = <<>> /\ error = TypeErrorMessage

\* C18 witness: a batch of three scenarios has ended; the payload of the
\* second had no summary, and the results of the first and the third, which
\* the remote call answered, are displayed.
C18_Witness ==
  /\ BatchEnded
  /\ Len(batches[1].calls) = 3
  /\ NoSummaryPayload(batches[1].calls[2])
  /\ batches[1].calls[2].result = ReturnedNull
  /\ ~batches[1].calls[1].isMock /\ ~batches[1].calls[3].isMock
  /\ metricsData = <<batches[1].calls[1].result.m, batches[1].calls[3].result.m>>
  /\ error = NoError

(***************************************************************************)
(* Claims on the formatted duration (SpecHours).                           *)
(***************************************************************************)
\* The decimal-hours value that is formatted.
HoursFormatted == ToNumber(Or(callItem.summary.avg_trip_hours, Int2Num(0)))

\* C19: the duration formatted for the decimal-hours value v is h hours and
\* m minutes, where h is the greatest integer not above v and m is
\* (v - h) * 60 rounded to the nearest integer (a half upwards); a value that
\* is not a number formats as 0h 0m; 2.11 formats as 2h 7m.
C19_HoursAndMinutes ==
  NormReturnedMetrics =>
    LET v == HoursFormatted
        h == callResult.m.avgTripTimeStr.hrs
        m == callResult.m.avgTripTimeStr.mins
    IN /\ v.d = 0 => h = 0 /\ m = 0
       /\ v.d > 0 =>
            /\ h * v.d <= v.n /\ v.n < (h + 1) * v.d
            /\ (2 * m - 1) * v.d <= 120 * (v.n - h * v.d)
            /\ 120 * (v.n - h * v.d) < (2 * m + 1) * v.d
       /\ NumEq(v, Num(211, 100)) => h = 2 /\ m = 7

\* C19 witness: 2.11 hours formatted as 2h 7m.
C19_Witness ==
  /\ NormReturnedMetrics
  /\ NumEq(HoursFormatted, Num(211, 100))
  /\ callResult.m.avgTripTimeStr = [hrs |-> 2, mins |-> 7]

(***************************************************************************)
(* Claims on the drop reasons (SpecReasons).                               *)
(***************************************************************************)
\* An entry of the breakdown as (label, or code when there is no label, and
\* count); a label that is null or empty is no label.
Projected(entry) ==
  [reason |-> IF entry.reason_label \in {Undef, Null, Str("")}
                THEN entry.reason_code ELSE entry.reason_label,
   count |-> entry.dropped_count]

\* C20: the drop reasons are the entries of the payload's breakdown, each
\* projected to (label, or code when the label is absent, and count), in an
\* order that is a permutation of the input order, in which the counts do not
\* increase and entries of equal count are in their input order.
C20_ReasonsSortedStable ==
  NormReturnedMetrics =>
    LET entries == callItem.drop_breakup.items
        reasons == callResult.m.dropReasons
    IN /\ Len(reasons) = Len(entries)
       /\ \E pi \in Permutations(1..Len(entries)) :
            /\ \A k \in 1..Len(reasons) : reasons[k] = Projected(entries[pi[k]])
            /\ \A k \in 1..Len(reasons) : \A l \in 1..Len(reasons) :
                 k < l =>
                   /\ reasons[k].count.n >= reasons[l].count.n
                   /\ reasons[k].count.n = reasons[l].count.n => pi[k] < pi[l]

\* C20 witness: counts 1, 2, 1 come out as 2, 1, 1; the two entries of count
\* 1 are in their input order, and the first of them, which has no label, is
\* shown by its code.
C20_Witness ==
  /\ NormReturnedMetrics
  /\ Len(callItem.drop_breakup.items) = 3
  /\ callItem.drop_breakup.items[1].reason_code = Str("CAP")
  /\ callItem.drop_breakup.items[2].reason_code = Str("WIN")
  /\ callItem.drop_breakup.items[3].reason_code = Str("SKILL")
  /\ callResult.m.dropReasons =
       <<[reason |-> Str("Time window"), count |-> Int2Num(2)],
         [reason |-> Str("CAP"), count |-> Int2Num(1)],
         [reason |-> Str("Skill"), count |-> Int2Num(1)]>>

(***************************************************************************)
(* Claims on the VehicleStats (SpecLegs).                                  *)
(***************************************************************************)
\* The records of data that belong to scenario id and to vehicle v.
RecordsOfVehicle(id, v) ==
  SelectSeq(data, LAMBDA r : ScenarioOfRecord(r) = id /\ VCode(r) = v)

\* C21: once the records are processed, every VehicleStat of every scenario
\* has an accumulated distance that is not negative and is the sum of the
\* parsed distances of its records, where a distance that is no number after
\* the stripping counts zero, and a stop count that is a non-negative integer.
C21_VehicleStatNonNegative ==
  AggComputed =>
    \A k \in 1..Len(scenarioMetrics.list) :
      LET id == scenarioMetrics.list[k].id
          vehicles == Vehicles(RowsOf(data, id))
      IN \A v \in DOMAIN vehicles :
           /\ vehicles[v].distance.d > 0
           /\ vehicles[v].distance.n >= 0
           /\ NumEq(vehicles[v].distance,
                    SumOfDistances(RecordsOfVehicle(id, v)))
           /\ vehicles[v].stops \in Nat
           /\ vehicles[v].stops = NumberOfStops(RecordsOfVehicle(id, v))

(***************************************************************************)
(* Claims on the order of the batch result (SpecBatch).                    *)
(***************************************************************************)
\* The position at which the scenario of result k was requested.
RequestedAt(k) ==
  CHOOSE i \in 1..Len(batches[1].scenarios) :
    Str(batches[1].scenarios[i]) = metricsData[k].id

\* C22: in whatever order the calls of a batch returned, every entry of the
\* batch result is the DetailedMetrics that the call for a requested name
\* returned, and one entry precedes another exactly when its name was
\* requested earlier.
C22_ResultInRequestedOrder ==
  BatchEnded =>
    /\ \A k \in 1..Len(metricsData) :
         /\ \E i \in 1..Len(batches[1].scenarios) :
              Str(batches[1].scenarios[i]) = metricsData[k].id
         /\ batches[1].calls[RequestedAt(k)].result = Returned(metricsData[k])
    /\ \A k \in 1..Len(metricsData) : \A l \in 1..Len(metricsData) :
         k < l <=> RequestedAt(k) < RequestedAt(l)

\* C22 witness: C, A and B were requested; A produced nothing; the remote
\* call for C failed and its fallback was awaited; the result is C, then B.
C22_Witness ==
  /\ BatchEnded
  /\ batches[1].scenarios = <<"C", "A", "B">>
  /\ batches[1].calls[1].isMock
  /\ ~batches[1].calls[3].isMock
  /\ Len(metricsData) = 2
  /\ metricsData[1].id = Str("C")
  /\ metricsData[2].id = Str("B")

(***************************************************************************)
(* Claims on overlapping batches (Spec).                                   *)
(***************************************************************************)
\* Batch b is in flight and is not what the page last asked for: a batch was
\* started after it, or the mode was switched after its start.
Superseded(b) ==
  /\ b \in 1..Len(batches)
  /\ batches[b].outcome = "pending"
  /\ (b < Len(batches) \/ batches[b].mode # mode)

\* Call i of batch b returns in this step.
Returns(b, i) ==
  \/ DelayElapses(b, i)
  \/ /\ Pending(b, i, "json")
     /\ \E body \in RemoteBodies(batches[b].calls[i].scenarioName) :
          JsonResolves(b, i, body)

\* C23: when a call of a batch returns after a later batch was started or the
\* mode was switched, the step changes neither the displayed result set nor
\* the error nor the loading flag: they stay those of the latest request.
C23_EarlierBatchNeverOverwrites ==
  [][\A c \in Calls :
       Superseded(c[1]) /\ Returns(c[1], c[2])
         => UNCHANGED <<metricsData, error, isLoading>>]_vars

(***************************************************************************)
(* Claims on the minutes of a formatted duration (SpecHours).              *)
(***************************************************************************)
\* C24: for every non-negative decimal-hours value, the minutes of the
\* formatted duration are an integer from 0 to 59; a value just below a whole
\* hour never formats as 60 minutes.
C24_MinutesBelowSixty ==
  (NormReturnedMetrics /\ HoursFormatted.d > 0 /\ HoursFormatted.n >= 0)
    => callResult.m.avgTripTimeStr.mins \in 0..59

=============================================================================
